---- MODULE Spec2Model ----
(***************************************************************************)
(* State-machine model of the incremental fetch + cache + aggregate        *)
(* scripts of the veDOLO dashboard:                                        *)
(*   - the block-range fetchers update_data.fetch_all_nft_transfers and    *)
(*     generate_dolo_holders.fetch_erc20_transfers,                        *)
(*   - the page-number fetchers get_all_exercise_txs, get_all_transactions *)
(*     and get_new_transactions,                                           *)
(*   - the resolver / cache phase of fetch_early_exits.main and            *)
(*     update_data.fetch_locked_dolo,                                      *)
(*   - the incremental totals of update_exercised_usd.main.                *)
(* The resolver / cache variables are shared by fetch_early_exits.main and  *)
(* update_data.fetch_locked_dolo; where the two differ the second reading   *)
(* is given after "/".                                                      *)
(* The variable `script` says which program a behaviour runs.              *)
(***************************************************************************)
EXTENDS Integers, Sequences, FiniteSets, TLC

VARIABLES
    script,              \* which program this behaviour runs
    \* ---- block-range fetchers ----
    src,                 \* the source history: records [blk, key], ascending blk
    cap,                 \* page capacity ("offset": 10000 in the code)
    start_block,         \* the cursor
    all_txs,             \* accumulated output: source positions, in arrival order
    seen,                \* seen_hashes / seen: composite keys collected
    retry,               \* index of the for-loop attempt about to be made
    consecutive_errors,  \* fetch_erc20_transfers only
    fpc,                 \* "request" | "done"
    endedBy,             \* the path the fetcher left through
    mainpc,              \* what the caller does with the result
    waits,               \* history: the sleeps of the current retry loop, in seconds
    delivered,           \* history: source positions some status-1 page carried
    overlapped,          \* history: a page re-delivered a collected record
    stalled,             \* history: the forced advance (last_block = start_block) ran
    \* ---- page-number fetchers and update_exercised_usd ----
    chain,               \* the Vester contract's transactions, ascending block
    page_size,           \* PAGE_SIZE ("offset": 100 in the code)
    qstart,              \* the request's startblock
    page,                \* the page index of the next request
    new_txs,             \* the fetcher's all_txs: chain positions collected
    requests,            \* history: page requests issued by this fetch
    apiFailed,           \* history: a response was an error while items remained
    ppc,                 \* "load" | "fetching" | "fetched" | "done"
    existing,            \* update_exercised_usd: what load_existing returned
    datafile,            \* exercised_usd.json on disk
    result,              \* calculate_exercised_usd: exercised_volume_results.json
                         \*   / generate_exercisers: exercisers_by_address.json
    unanswered,          \* history: chain positions whose receipt call gave no result,
                         \*   this run
    run,                 \* number of the current run
    prevFile,            \* history: the data file when the previous run ended
    prevChainLen,        \* history: length of the chain when the previous run ended
    prevFailed,          \* history: an earlier run met a failed response or receipt
    \* ---- resolver / cache phase (fetch_early_exits.main / fetch_locked_dolo) ----
    events,              \* tx_hash of every decoded Withdraw event, in log order
                         \*   / all_token_ids, ascending
    receipts,            \* the chain: tx_hash -> what its receipt holds
                         \*   / token id -> what locked(tid) returns
    cache,               \* the in-memory cache dict: entries [k, v] in insertion order
    cachefile,           \* the cache file on disk: [state, data]
    needed,              \* tx_hashes_needed / missing
    chunk_idx,           \* index of the chunk being worked on / first chunk of the window
    inflight,            \* positions of `needed` submitted to the pool, not yet merged
                         \*   / chunks of the window submitted, not yet merged
    futures,             \* the futures of the chunk: position -> "running" | "ok" | "none"
                         \*   / of the window: chunk -> "running" | [errs : positions]
    batchStart,          \* history: the cache when the chunk was submitted
    workerWrote,         \* history: a worker task assigned to the cache
    failed,              \* history: positions of `needed` whose call gave no result,
                         \*   this run
    cpc,                 \* position of main
    errors,              \* the error counter
    stats,               \* the statistics written to early_exits.json
    crun,                \* number of the current run
    preloaded,           \* history: keys the cache held after loading, this run
    calls,               \* history: tx_hashes the resolver was called for, this run
    recalled,            \* history: tx_hashes resolved although an entry existed, this run
    overwrote,           \* history: tx_hashes whose entry was assigned again, this run
    dirtyChunks,         \* history: chunks with merged results not yet on disk
    transient,           \* history: a resolver call failed transiently, this run
    prevCacheFile,       \* history: the cache file when the previous run ended
    prevStats,           \* history: the statistics the previous run wrote
    prevOk,              \* history: the previous run ran to its end
    \* calculate_avg_lock after the fetch
    lock_txs,            \* txs: the exercise transactions get_all_exercise_txs returned
    durations,           \* the valid lock durations, in seconds
    buckets,             \* the distribution counters
    bi,                  \* number of durations the bucket loop has handled
    lpc,                 \* position of main
    avgfile,             \* avg_lock_data.json
    \* update_data: build_ownership and the final listing
    nft_txs,             \* txs: the transfer records in the order they arrived
    ownership,           \* token_id -> current owner, in insertion order
    holders,             \* the list of holders
    nft_stats,           \* stats of build_ownership
    opc,                 \* position of main
    \* generate_dolo_holders: merge_holders
    eth_balances,        \* address -> balance on Ethereum, as build_balances returned it
    bera_balances,       \* address -> balance on Berachain
    merged,              \* holders: the list merge_holders returns
    mpc,                 \* position of main
    \* fetch_early_exits: fetch_withdraw_events
    chain_logs,          \* the blocks that hold a Withdraw event of the contract
    latest_block,        \* the answer to eth_blockNumber
    block,               \* first block of the next range
    all_logs,            \* the events collected so far
    ranges,              \* history: the ranges asked for, in order
    wpc,                 \* position of fetch_withdraw_events
    \* fetch_early_exits: rpc_call
    rpc_idx,             \* index of the endpoint in RPC_URLS
    attempt,             \* attempt number on that endpoint
    tried,               \* history: the endpoint of every request made, in order
    rpc_waits,           \* history: the sleeps, in half seconds
    answered,            \* history: the result the first response with a result carried
    rpc_ret,             \* what rpc_call returned
    rpc_pc,              \* position of rpc_call
    \* extract_lock_duration on the raw input
    dtx,                 \* the transaction as Etherscan lists it
    abi,                 \* history: the lock end the sender encoded into the input
    dur_seconds,         \* result of calculate_avg_lock.extract_lock_duration
    dur_days,            \* result of generate_exercisers.extract_lock_duration, in tenths of a day
    decoded,             \* which of the two functions have run
    \* fetch_defillama
    dl_resp,             \* what the request gave: its outcome and the shape of the members used
    dl_file,             \* defillama_data.json
    dl_prev,             \* history: defillama_data.json before the run
    dl_pc,               \* position of main
    \* fetch_early_exits: phase 4, the statistics
    p4_events,           \* the decoded Withdraw events, in log order
    p4_cache,            \* the cache after phase 3
    p4_i,                \* number of events the loop has handled
    early_exits,         \* the entries with is_early_exit
    normal_exits,        \* the other entries
    p4_stats,            \* the stats of the output
    p4_pc,               \* position of main
    \* update_data: make_batch_call / make_vote_batch_call
    b_fn,                \* which of the two functions runs
    b_ids,               \* token_ids: the ids of the batch
    b_url,               \* index of the endpoint in RPC_URLS (make_vote_batch_call)
    b_retry,             \* the attempt about to be made
    b_out,               \* out: the entries written so far, [k, v] in insertion order
    b_pc                 \* position of the function

fetchVars == <<src, cap, start_block, all_txs, seen, retry, consecutive_errors,
               fpc, endedBy, mainpc, waits, delivered, overlapped, stalled>>

pageVars == <<chain, page_size, qstart, page, new_txs, requests, apiFailed, ppc,
              existing, datafile, result, unanswered, run, prevFile, prevChainLen,
              prevFailed>>

cacheVars == <<events, receipts, cache, cachefile, needed, chunk_idx, inflight, futures,
               batchStart, workerWrote, failed, cpc, errors, stats, crun, preloaded,
               calls, recalled, overwrote, dirtyChunks, transient, prevCacheFile, prevStats,
               prevOk>>

avgVars == <<lock_txs, durations, buckets, bi, lpc, avgfile>>

ownVars == <<nft_txs, ownership, holders, nft_stats, opc>>

mergeVars == <<eth_balances, bera_balances, merged, mpc>>

logVars == <<chain_logs, latest_block, block, all_logs, ranges, wpc>>

rpcVars == <<rpc_idx, attempt, tried, rpc_waits, answered, rpc_ret, rpc_pc>>

decodeVars == <<dtx, abi, dur_seconds, dur_days, decoded>>

dlVars == <<dl_resp, dl_file, dl_prev, dl_pc>>

p4Vars == <<p4_events, p4_cache, p4_i, early_exits, normal_exits, p4_stats, p4_pc>>

batchVars == <<b_fn, b_ids, b_url, b_retry, b_out, b_pc>>

vars == <<script, fetchVars, pageVars, cacheVars, avgVars, ownVars, mergeVars, logVars, rpcVars, decodeVars, dlVars, p4Vars, batchVars>>

othersOfFetch == <<pageVars, cacheVars, avgVars, ownVars, mergeVars, logVars, rpcVars, decodeVars, dlVars, p4Vars, batchVars>>
othersOfPage == <<fetchVars, cacheVars, avgVars, ownVars, mergeVars, logVars, rpcVars, decodeVars, dlVars, p4Vars, batchVars>>
othersOfCache == <<fetchVars, pageVars, avgVars, ownVars, mergeVars, logVars, rpcVars, decodeVars, dlVars, p4Vars, batchVars>>
othersOfAvg == <<fetchVars, pageVars, cacheVars, ownVars, mergeVars, logVars, rpcVars, decodeVars, dlVars, p4Vars, batchVars>>
othersOfOwn == <<fetchVars, pageVars, cacheVars, avgVars, mergeVars, logVars, rpcVars, decodeVars, dlVars, p4Vars, batchVars>>
othersOfMerge == <<fetchVars, pageVars, cacheVars, avgVars, ownVars, logVars, rpcVars, decodeVars, dlVars, p4Vars, batchVars>>
othersOfLog == <<fetchVars, pageVars, cacheVars, avgVars, ownVars, mergeVars, rpcVars, decodeVars, dlVars, p4Vars, batchVars>>
othersOfRpc == <<fetchVars, pageVars, cacheVars, avgVars, ownVars, mergeVars, logVars, decodeVars, dlVars, p4Vars, batchVars>>
othersOfDecode == <<fetchVars, pageVars, cacheVars, avgVars, ownVars, mergeVars, logVars, rpcVars, dlVars, p4Vars, batchVars>>
othersOfDl == <<fetchVars, pageVars, cacheVars, avgVars, ownVars, mergeVars, logVars, rpcVars, decodeVars, p4Vars, batchVars>>
othersOfP4 == <<fetchVars, pageVars, cacheVars, avgVars, ownVars, mergeVars, logVars, rpcVars, decodeVars, dlVars, batchVars>>
othersOfBatch == <<fetchVars, pageVars, cacheVars, avgVars, ownVars, mergeVars, logVars, rpcVars, decodeVars, dlVars, p4Vars>>

\* ---------------------------------------------------------------- bounds
MaxRecords == 3
MaxBlock == 3
MaxCap == 2
SkipBlocks == 2
MaxTxs == 3
MaxTxBlock == 2
MaxPageSize == 2
MaxRuns == 2
MaxEvents == 3
PoolSize == 2
MaxTokens == 3
BatchSize == 1

\* ------------------------------------------------------ program constants
NFT_RETRIES == 3
ERC20_RETRIES == 5
MAX_CONSECUTIVE_ERRORS == 3
FLUSH_EVERY == 10
SAVE_EVERY == 50

Min(a, b) == IF a < b THEN a ELSE b

CeilDiv(n, p) == (n + p - 1) \div p

Range(s) == {s[i] : i \in DOMAIN s}

\* ------------------------------------------------ block-range fetchers

BlockFetchers == {"nft", "erc20"}

\* The source sorts ascending by block ("sort": "asc").
SortedByBlock(s) == \A i \in DOMAIN s : \A j \in DOMAIN s : i < j => s[i].blk <= s[j].blk

\* tx_key = hash + tokenID (nft) or hash + logIndex (erc20).  A log index is
\* unique in its block, so erc20 keys are unique.  Two transfers of one token in
\* one transaction (hence in one block) carry the same hash + tokenID.
KeysPossible(s, sc) ==
    \A i \in DOMAIN s :
        \/ s[i].key = i
        \/ /\ sc = "nft"
           /\ i > 1
           /\ s[i].blk = s[i - 1].blk
           /\ s[i].key = s[i - 1].key

Sources(sc) ==
    UNION { { s \in [1..n -> [blk : 1..MaxBlock, key : 1..MaxRecords]] :
                SortedByBlock(s) /\ KeysPossible(s, sc) } : n \in 0..MaxRecords }

Key(i) == src[i].key

\* First source position whose block is >= sb (Len(src) + 1 when there is none).
FirstFrom(sb) ==
    IF \E i \in DOMAIN src : src[i].blk >= sb
    THEN CHOOSE i \in DOMAIN src :
            /\ src[i].blk >= sb
            /\ \A j \in DOMAIN src : src[j].blk >= sb => i <= j
    ELSE Len(src) + 1

\* The API's answer to startblock = sb, page = 1, offset = cap, sort = asc.
Page(sb) ==
    LET f == FirstFrom(sb)
        l == Min(f + cap - 1, Len(src))
    IN  [k \in 1..(l - f + 1) |-> f + k - 1]

Retries(sc) == IF sc = "nft" THEN NFT_RETRIES ELSE ERC20_RETRIES

\* The membership test of the dedup loop (tx_key not in seen).
IsNewAlways(k, seenSet) == TRUE
IsNew(k, seenSet) == k \notin seenSet

\* The dedup loop: for tx in results: if tx_key not in seen: add, append.
\* acc = [txs, seen, dup]; dup records that a collected record came again.
RECURSIVE DedupFrom(_, _, _)
DedupFrom(results, k, acc) ==
    IF k > Len(results) THEN acc
    ELSE IF IsNew(Key(results[k]), acc.seen)
         THEN DedupFrom(results, k + 1,
                [txs |-> Append(acc.txs, results[k]),
                 seen |-> acc.seen \cup {Key(results[k])},
                 dup |-> acc.dup])
         ELSE DedupFrom(results, k + 1,
                [txs |-> acc.txs, seen |-> acc.seen,
                 dup |-> acc.dup \/ results[k] \in Range(acc.txs)])

Dedup(results) == DedupFrom(results, 1, [txs |-> all_txs, seen |-> seen, dup |-> FALSE])

\* The next lower bound after a full page.
NextStartNoForce(last_block, sb) == last_block
NextStart(last_block, sb) == IF last_block = sb THEN last_block + 1 ELSE last_block

\* What the caller does with a returned list.
\* update_data.main: if not txs: sys.exit(0), else build_ownership(txs).
\* generate_dolo_holders.main: build_balances(txs) if txs else {}.
CallerOf(sc, txs) ==
    IF sc = "nft"
    THEN (IF txs = <<>> THEN "exit0" ELSE "build_ownership")
    ELSE (IF txs = <<>> THEN "skip_chain" ELSE "build_balances")

Return(txs, path) ==
    /\ fpc' = "done"
    /\ endedBy' = path
    /\ mainpc' = CallerOf(script, txs)

NoDuration == -1

NoFile == [exists |-> FALSE, content |-> "none"]
NoResponse == [outcome |-> "none", tvls |-> "dict", tokens |-> "list", chains |-> "list"]

NoStats ==
    [written |-> FALSE, total_early_exits |-> 0, total_normal_exits |-> 0,
     total_withdrawals |-> 0, total_burn_fee_dolo |-> 0, total_recoup_fee_dolo |-> 0,
     total_penalty_dolo |-> 0, total_original_locked |-> 0, avg_penalty_pct |-> 0]

BatchIdle ==
    /\ b_fn = "none"
    /\ b_ids = <<>>
    /\ b_url = 0
    /\ b_retry = 0
    /\ b_out = <<>>
    /\ b_pc = "idle"

P4Idle ==
    /\ p4_events = <<>>
    /\ p4_cache = <<>>
    /\ p4_i = 0
    /\ early_exits = <<>>
    /\ normal_exits = <<>>
    /\ p4_stats = NoStats
    /\ p4_pc = "idle"

DlIdle ==
    /\ dl_resp = NoResponse
    /\ dl_file = NoFile
    /\ dl_prev = NoFile
    /\ dl_pc = "idle"

DecodeIdle ==
    /\ dtx = [input |-> <<>>, timeStamp |-> 0, hash |-> 0]
    /\ abi = 0
    /\ dur_seconds = NoDuration
    /\ dur_days = NoDuration
    /\ decoded = {}

RpcIdle ==
    /\ rpc_idx = 0
    /\ attempt = 0
    /\ tried = <<>>
    /\ rpc_waits = <<>>
    /\ answered = "nothing"
    /\ rpc_ret = "nothing"
    /\ rpc_pc = "idle"

LogIdle ==
    /\ chain_logs = {}
    /\ latest_block = 0
    /\ block = 0
    /\ all_logs = <<>>
    /\ ranges = <<>>
    /\ wpc = "idle"

MergeIdle ==
    /\ eth_balances = <<>>
    /\ bera_balances = <<>>
    /\ merged = <<>>
    /\ mpc = "idle"

OwnIdle ==
    /\ nft_txs = <<>>
    /\ ownership = <<>>
    /\ holders = <<>>
    /\ nft_stats = [total_minted |-> 0, total_burned |-> 0, active_nfts |-> 0, unique_holders |-> 0]
    /\ opc = "idle"

FetchIdle ==
    /\ src = <<>>
    /\ cap = 1
    /\ start_block = 0
    /\ all_txs = <<>>
    /\ seen = {}
    /\ retry = 0
    /\ consecutive_errors = 0
    /\ fpc = "idle"
    /\ endedBy = "none"
    /\ mainpc = "idle"
    /\ waits = <<>>
    /\ delivered = {}
    /\ overlapped = FALSE
    /\ stalled = FALSE

NoResult ==
    [written |-> FALSE, total_exercise_txs |-> 0, processed |-> 0, errors |-> 0,
     total_usdc |-> 0]

PageIdle ==
    /\ chain = <<>>
    /\ page_size = 1
    /\ qstart = 0
    /\ page = 1
    /\ new_txs = <<>>
    /\ requests = 0
    /\ apiFailed = FALSE
    /\ ppc = "idle"
    /\ existing = [total_usdc |-> 0, total_txs |-> 0, last_block |-> 0]
    /\ datafile = [exists |-> FALSE, total_usdc |-> 0, total_txs |-> 0,
                   last_block |-> 0, stamp |-> 0]
    /\ result = NoResult
    /\ unanswered = {}
    /\ run = 1
    /\ prevFile = datafile
    /\ prevChainLen = 0
    /\ prevFailed = FALSE

\* No future submitted.
NoFutures == [i \in {} |-> "running"]

BucketNames == {"< 1 month", "1-3 months", "3-6 months", "6-12 months", "1-2 years"}

\* buckets = {"< 1 month": 0, "1-3 months": 0, ...}
NoBuckets == [b \in BucketNames |-> 0]

AvgIdle ==
    /\ lock_txs = <<>>
    /\ durations = <<>>
    /\ buckets = NoBuckets
    /\ bi = 0
    /\ lpc = "idle"
    /\ avgfile = [written |-> FALSE]

CacheIdle ==
    /\ events = <<>>
    /\ receipts = <<>>
    /\ cache = <<>>
    /\ cachefile = [state |-> "absent", data |-> <<>>]
    /\ needed = <<>>
    /\ chunk_idx = 0
    /\ inflight = {}
    /\ futures = NoFutures
    /\ batchStart = <<>>
    /\ workerWrote = FALSE
    /\ failed = {}
    /\ cpc = "idle"
    /\ errors = 0
    /\ stats = NoStats
    /\ crun = 1
    /\ preloaded = {}
    /\ calls = {}
    /\ recalled = {}
    /\ overwrote = {}
    /\ dirtyChunks = {}
    /\ transient = FALSE
    /\ prevCacheFile = cachefile
    /\ prevStats = NoStats
    /\ prevOk = FALSE

\* API_KEY = os.environ.get("BERASCAN_API_KEY", ""): update_data starts with the
\* key set ("request") or empty ("no_key").
StartOf(sc) == IF sc = "nft" THEN {"request", "no_key"} ELSE {"request"}

InitFetch ==
    /\ script \in BlockFetchers
    /\ src \in Sources(script)
    /\ cap \in 1..MaxCap
    /\ start_block = 0
    /\ all_txs = <<>>
    /\ seen = {}
    /\ retry = 0
    /\ consecutive_errors = 0
    /\ fpc \in StartOf(script)
    /\ endedBy = "none"
    /\ mainpc = "fetching"
    /\ waits = <<>>
    /\ delivered = {}
    /\ overlapped = FALSE
    /\ stalled = FALSE
    /\ PageIdle
    /\ CacheIdle
    /\ AvgIdle
    /\ OwnIdle
    /\ MergeIdle
    /\ LogIdle
    /\ RpcIdle
    /\ DecodeIdle
    /\ DlIdle
    /\ P4Idle
    /\ BatchIdle

\* status == "1" and a list: dedup, then return on a short page or move the cursor.
PageOk ==
    /\ fpc = "request"
    /\ Page(start_block) # <<>>
    /\ LET results == Page(start_block)
           d == Dedup(results)
           last_block == src[results[Len(results)]].blk
       IN  /\ all_txs' = d.txs
           /\ seen' = d.seen
           /\ delivered' = delivered \cup Range(results)
           /\ overlapped' = (overlapped \/ d.dup)
           /\ consecutive_errors' = 0
           /\ IF Len(results) < cap
              THEN /\ Return(d.txs, "short_page")
                   /\ UNCHANGED <<start_block, retry, stalled, waits>>
              ELSE /\ start_block' = NextStart(last_block, start_block)
                   /\ stalled' = (stalled \/ last_block = start_block)
                   /\ retry' = 0
                   /\ waits' = <<>>
                   /\ UNCHANGED <<fpc, endedBy, mainpc>>
    /\ UNCHANGED <<script, src, cap>>
    /\ UNCHANGED othersOfFetch

\* "No transactions found": nothing at or after the cursor.
PageNoTransactions ==
    /\ fpc = "request"
    /\ Page(start_block) = <<>>
    /\ Return(all_txs, "no_tx")
    /\ UNCHANGED <<script, src, cap, start_block, all_txs, seen, retry,
                   consecutive_errors, waits, delivered, overlapped, stalled>>
    /\ UNCHANGED othersOfFetch

\* time.sleep(2 * (retry + 1)) in update_data; in generate_dolo_holders
\* 3 * (retry + 1) after a rate-limit answer or a timeout and 2 * (retry + 1)
\* after another API answer.
Wait(sc, r) == IF sc = "nft" THEN 2 * (r + 1) ELSE 3 * (r + 1)
WaitApiError(r) == 2 * (r + 1)

\* The for-loop ran out of attempts (the for ... else clause), with ce errors so
\* far, after a last sleep of w seconds.
ForElse(ce, w) ==
    IF script = "nft"
    THEN /\ Return(all_txs, "retries")
         /\ waits' = Append(waits, w)
         /\ UNCHANGED <<start_block, retry, consecutive_errors>>
    ELSE IF ce + 1 >= MAX_CONSECUTIVE_ERRORS
         THEN /\ Return(all_txs, "consecutive_errors")
              /\ consecutive_errors' = ce + 1
              /\ waits' = Append(waits, w)
              /\ UNCHANGED <<start_block, retry>>
         ELSE /\ start_block' = start_block + SkipBlocks
              /\ consecutive_errors' = ce + 1
              /\ retry' = 0
              /\ waits' = <<>>
              /\ UNCHANGED <<fpc, endedBy, mainpc>>

\* `continue` / a caught exception, after a sleep of w seconds: the next
\* attempt, or the else clause.
NextAttempt(ce, w) ==
    IF retry + 1 < Retries(script)
    THEN /\ retry' = retry + 1
         /\ consecutive_errors' = ce
         /\ waits' = Append(waits, w)
         /\ UNCHANGED <<start_block, fpc, endedBy, mainpc>>
    ELSE ForElse(ce, w)

\* A rate-limit answer, a timeout or any other exception: sleep and retry.
AttemptFails ==
    /\ fpc = "request"
    /\ NextAttempt(consecutive_errors, Wait(script, retry))
    /\ UNCHANGED <<script, src, cap, all_txs, seen, delivered, overlapped, stalled>>
    /\ UNCHANGED othersOfFetch

\* Any other API answer (status 0 with another message).
ApiError ==
    /\ fpc = "request"
    /\ IF script = "nft"
       THEN /\ fpc' = "done"
            /\ endedBy' = "api_error"
            /\ mainpc' = IF all_txs # <<>> THEN CallerOf(script, all_txs) ELSE "exit1"
            /\ UNCHANGED <<start_block, retry, consecutive_errors, waits>>
       ELSE IF consecutive_errors + 1 >= MAX_CONSECUTIVE_ERRORS
            THEN /\ Return(all_txs, "consecutive_errors")
                 /\ consecutive_errors' = consecutive_errors + 1
                 /\ UNCHANGED <<start_block, retry, waits>>
            ELSE NextAttempt(consecutive_errors + 1, WaitApiError(retry))
    /\ UNCHANGED <<script, src, cap, all_txs, seen, delivered, overlapped, stalled>>
    /\ UNCHANGED othersOfFetch

\* if not API_KEY: sys.exit(1), the first statement of fetch_all_nft_transfers.
ExitCodeNoKey == "exit1"

MissingKey ==
    /\ script = "nft"
    /\ fpc = "no_key"
    /\ fpc' = "done"
    /\ endedBy' = "no_key"
    /\ mainpc' = ExitCodeNoKey
    /\ UNCHANGED <<script, src, cap, start_block, all_txs, seen, retry,
                   consecutive_errors, waits, delivered, overlapped, stalled>>
    /\ UNCHANGED othersOfFetch

NextFetch == PageOk \/ PageNoTransactions \/ AttemptFails \/ ApiError \/ MissingKey

SpecFetch == InitFetch /\ [][NextFetch]_vars

\* The loop always takes its next step: the program is a single running thread.
FairFetch == SpecFetch /\ WF_vars(NextFetch)

\* ------------------------------- page-number fetchers, update_exercised_usd

PageFetchers == {"avg_lock", "calc_usd", "update_usd"}

\* get_usdc_from_receipt returned None (no receipt, or no matching Transfer).
NoAmount == -1

\* A transaction: its block, whether it is a successful exercise call
\* (methodId, isError, txreceipt_status), and the USDC.e amount its receipt
\* carries, in 1/1000 USDC.  Only exercise transactions have their receipt read.
TxKinds ==
    { [blk |-> b, ex |-> e, amt |-> a] :
        b \in 1..MaxTxBlock, e \in BOOLEAN, a \in {NoAmount, 4, 10} }

SortedChain(c) == \A i \in DOMAIN c : \A j \in DOMAIN c : i < j => c[i].blk <= c[j].blk

Chains(sc) ==
    UNION { { c \in [1..n -> TxKinds] :
                /\ SortedChain(c)
                /\ \A i \in 1..n : (~c[i].ex \/ sc = "avg_lock") => c[i].amt = NoAmount }
            : n \in 0..MaxTxs }

\* round(x, 2) on an amount held in 1/1000: to the nearest multiple of 10.
\* (Sums of the amounts 4 and 10 never end in 5, so no tie arises.)
Round2(x) == IF x % 10 < 5 THEN 10 * (x \div 10) ELSE 10 * ((x \div 10) + 1)

\* First chain position the request's startblock admits.
QueryFirst ==
    IF \E i \in DOMAIN chain : chain[i].blk >= qstart
    THEN CHOOSE i \in DOMAIN chain :
            /\ chain[i].blk >= qstart
            /\ \A j \in DOMAIN chain : chain[j].blk >= qstart => i <= j
    ELSE Len(chain) + 1

QueryLen == Len(chain) - QueryFirst + 1

\* The API's answer to page = p, offset = page_size, sort = asc.
PageItems(p) ==
    LET f == QueryFirst + (p - 1) * page_size
        l == Min(f + page_size - 1, Len(chain))
    IN  [k \in 1..(l - f + 1) |-> f + k - 1]

IsExercise(i) == chain[i].ex

\* What the fetcher keeps of a page: get_all_exercise_txs filters, the others
\* extend with the whole page.
Keep(items) ==
    IF script = "avg_lock" THEN SelectSeq(items, IsExercise) ELSE items

\* The stop rule: len(txs) < PAGE_SIZE.
IsShortPageOrFull(n) == n <= page_size
IsShortPage(n) == n < page_size

\* startblock of the request: start_block + 1 in get_new_transactions, else 0.
StartOfQueryInclusive(last_block) == last_block
StartOfQuery(last_block) == last_block + 1

InitPage ==
    /\ script \in PageFetchers
    /\ chain \in Chains(script)
    /\ page_size \in 1..MaxPageSize
    /\ qstart = 0
    /\ page = 1
    /\ new_txs = <<>>
    /\ requests = 0
    /\ apiFailed = FALSE
    /\ ppc = IF script = "update_usd" THEN "load" ELSE "fetching"
    /\ existing = [total_usdc |-> 0, total_txs |-> 0, last_block |-> 0]
    /\ datafile = [exists |-> FALSE, total_usdc |-> 0, total_txs |-> 0,
                   last_block |-> 0, stamp |-> 0]
    /\ result = NoResult
    /\ unanswered = {}
    /\ run = 1
    /\ prevFile = datafile
    /\ prevChainLen = 0
    /\ prevFailed = FALSE
    /\ FetchIdle
    /\ CacheIdle
    /\ AvgIdle
    /\ OwnIdle
    /\ MergeIdle
    /\ LogIdle
    /\ RpcIdle
    /\ DecodeIdle
    /\ DlIdle
    /\ P4Idle
    /\ BatchIdle

\* update_exercised_usd.main, up to the call of get_new_transactions.
UsdLoad ==
    /\ script = "update_usd"
    /\ ppc = "load"
    /\ LET e == IF datafile.exists
                THEN [total_usdc |-> datafile.total_usdc,
                      total_txs |-> datafile.total_txs,
                      last_block |-> datafile.last_block]
                ELSE [total_usdc |-> 0, total_txs |-> 0, last_block |-> 0]
       IN  /\ existing' = e
           /\ qstart' = StartOfQuery(e.last_block)
    /\ page' = 1
    /\ new_txs' = <<>>
    /\ requests' = 0
    /\ apiFailed' = FALSE
    /\ ppc' = "fetching"
    /\ unanswered' = {}
    /\ UNCHANGED <<script, chain, page_size, datafile, result, run, prevFile,
                   prevChainLen, prevFailed>>
    /\ UNCHANGED othersOfPage

\* One pass of the while loop with the source's true answer.
PageResponse ==
    /\ ppc = "fetching"
    /\ requests' = requests + 1
    /\ LET items == PageItems(page)
       IN  IF items = <<>>
           THEN /\ ppc' = "fetched"
                /\ UNCHANGED <<new_txs, page>>
           ELSE /\ new_txs' = new_txs \o Keep(items)
                /\ IF IsShortPage(Len(items))
                   THEN /\ ppc' = "fetched"
                        /\ page' = page
                   ELSE /\ ppc' = "fetching"
                        /\ page' = page + 1
    /\ UNCHANGED <<script, chain, page_size, qstart, apiFailed, existing, datafile,
                   result, unanswered, run, prevFile, prevChainLen, prevFailed>>
    /\ UNCHANGED othersOfPage

\* One pass of the while loop in which the answer has status != "1" although
\* items remain (a rate-limit or error answer): the loop breaks.
PageError ==
    /\ ppc = "fetching"
    /\ PageItems(page) # <<>>
    /\ requests' = requests + 1
    /\ apiFailed' = TRUE
    /\ ppc' = "fetched"
    /\ UNCHANGED <<script, chain, page_size, qstart, page, new_txs, existing,
                   datafile, result, unanswered, run, prevFile, prevChainLen, prevFailed>>
    /\ UNCHANGED othersOfPage

\* if amount is None: errors += 1  (calculate_exercised_usd)
CountNone(e) == e + 1

\* The loop over the exercise transactions: the sum of the amounts, the number
\* of amounts and the number of None answers.
RECURSIVE SumAmounts(_, _)
SumAmounts(txs, failing) ==
    IF txs = <<>> THEN [usdc |-> 0, n |-> 0, errs |-> 0]
    ELSE LET rest == SumAmounts(Tail(txs), failing)
             amount == IF Head(txs) \in failing THEN NoAmount ELSE chain[Head(txs)].amt
         IN  IF amount # NoAmount
             THEN [usdc |-> rest.usdc + amount, n |-> rest.n + 1, errs |-> rest.errs]
             ELSE [usdc |-> rest.usdc, n |-> rest.n, errs |-> CountNone(rest.errs)]

RECURSIVE MaxBlockOf(_, _)
MaxBlockOf(txs, m) ==
    IF txs = <<>> THEN m
    ELSE MaxBlockOf(Tail(txs), IF chain[Head(txs)].blk > m THEN chain[Head(txs)].blk ELSE m)

\* update_exercised_usd.main after the fetch: filter, read the receipts, add to
\* the loaded totals and save.  `failing` are the receipts that came back without
\* a result on this run.
UsdProcess ==
    /\ script = "update_usd"
    /\ ppc = "fetched"
    /\ LET exercise_txs == SelectSeq(new_txs, IsExercise)
       IN  IF exercise_txs = <<>> /\ new_txs = <<>>
           THEN UNCHANGED <<datafile, apiFailed, unanswered>>
           ELSE \E failing \in SUBSET Range(exercise_txs) :
                    LET sum == SumAmounts(exercise_txs, failing)
                    IN  /\ unanswered' = failing
                        /\ datafile' =
                              [exists |-> TRUE,
                               total_usdc |-> Round2(existing.total_usdc + sum.usdc),
                               total_txs |-> existing.total_txs + sum.n,
                               last_block |-> MaxBlockOf(new_txs, existing.last_block),
                               stamp |-> run]
                        /\ apiFailed' = (apiFailed \/ failing # {})
    /\ ppc' = "done"
    /\ UNCHANGED <<script, chain, page_size, qstart, page, new_txs, requests, existing,
                   result, run, prevFile, prevChainLen, prevFailed>>
    /\ UNCHANGED othersOfPage

\* calculate_exercised_usd.main after the fetch: filter, read every receipt,
\* count and sum, write exercised_volume_results.json.  `failing` are the
\* receipt calls that came back without a result.
CalcProcess ==
    /\ script = "calc_usd"
    /\ ppc = "fetched"
    /\ LET exercise_txs == SelectSeq(new_txs, IsExercise)
       IN  \E failing \in SUBSET Range(exercise_txs) :
              LET sum == SumAmounts(exercise_txs, failing)
              IN  /\ unanswered' = failing
                  /\ result' = [written |-> TRUE,
                                total_exercise_txs |-> Len(exercise_txs),
                                processed |-> sum.n,
                                errors |-> sum.errs,
                                total_usdc |-> sum.usdc]
    /\ ppc' = "done"
    /\ UNCHANGED <<script, chain, page_size, qstart, page, new_txs, requests, apiFailed,
                   existing, datafile, run, prevFile, prevChainLen, prevFailed>>
    /\ UNCHANGED othersOfPage

\* New blocks the chain may have gained before the next run.
Growth ==
    {<<>>} \cup
    { <<t>> : t \in { k \in TxKinds :
                        /\ Len(chain) < MaxTxs
                        /\ \A i \in DOMAIN chain : chain[i].blk < k.blk
                        /\ ~k.ex => k.amt = NoAmount } }

\* The script is run again (cron, GitHub Action).
UsdNextRun ==
    /\ script = "update_usd"
    /\ ppc = "done"
    /\ run < MaxRuns
    /\ \E g \in Growth : chain' = chain \o g
    /\ prevFile' = datafile
    /\ prevChainLen' = Len(chain)
    /\ prevFailed' = (prevFailed \/ apiFailed)
    /\ run' = run + 1
    /\ ppc' = "load"
    /\ UNCHANGED <<script, page_size, qstart, page, new_txs, requests, apiFailed,
                   existing, datafile, result, unanswered>>
    /\ UNCHANGED othersOfPage

NextPage ==
    \/ UsdLoad
    \/ PageResponse
    \/ PageError
    \/ UsdProcess
    \/ CalcProcess
    \/ UsdNextRun

SpecPage == InitPage /\ [][NextPage]_vars

\* ------------------------------------------------- generate_exercisers

Addresses == {"A", "B"}

\* A Vester transaction as generate_exercisers reads it: whether it is a
\* successful exercise call, its sender, and the USDC.e amount its receipt
\* carries, in 1/1000 USDC (10.0 and 20.5).  The script asks from block 0 and
\* uses the block for nothing but the order, so all are put in one block.
ExerciserTxKinds ==
    { [blk |-> 1, ex |-> e, amt |-> a, frm |-> f] :
        e \in BOOLEAN, a \in {NoAmount, 10000, 20500}, f \in Addresses }

ExerciserChains ==
    UNION { { c \in [1..n -> ExerciserTxKinds] :
                \A i \in 1..n : ~c[i].ex => (c[i].amt = NoAmount /\ c[i].frm = "A") }
            : n \in 0..MaxTxs }

\* if usdc_amount is not None: only then is address_data[addr] accessed, and
\* the defaultdict creates the entry of an address on its first access.
IsCountedAlways(amount) == TRUE
IsCounted(amount) == amount # NoAmount

\* d = address_data[addr]; d["total_usdc"] += usdc_amount; d["exercises"] += 1
AddTo(d, addr, amount) ==
    IF addr \in DOMAIN d
    THEN [d EXCEPT ![addr] = [total_usdc |-> d[addr].total_usdc + amount,
                              exercises |-> d[addr].exercises + 1]]
    ELSE [a \in DOMAIN d \cup {addr} |->
            IF a = addr THEN [total_usdc |-> amount, exercises |-> 1] ELSE d[a]]

\* The loop over the exercise transactions: acc = [data, errors].
RECURSIVE AddressData(_, _, _)
AddressData(txs, failing, acc) ==
    IF txs = <<>> THEN acc
    ELSE LET i == Head(txs)
             usdc_amount == IF i \in failing THEN NoAmount ELSE chain[i].amt
         IN  IF IsCounted(usdc_amount)
             THEN AddressData(Tail(txs), failing,
                    [data |-> AddTo(acc.data, chain[i].frm, usdc_amount),
                     errors |-> acc.errors])
             ELSE AddressData(Tail(txs), failing,
                    [data |-> acc.data, errors |-> CountNone(acc.errors)])

RECURSIVE SumTotals(_, _)
SumTotals(d, S) ==
    IF S = {} THEN [usdc |-> 0, n |-> 0]
    ELSE LET a == CHOOSE x \in S : TRUE
             rest == SumTotals(d, S \ {a})
         IN  [usdc |-> rest.usdc + d[a].total_usdc, n |-> rest.n + d[a].exercises]

InitExercisers ==
    /\ script = "exercisers"
    /\ chain \in ExerciserChains
    /\ page_size \in 1..MaxPageSize
    /\ qstart = 0
    /\ page = 1
    /\ new_txs = <<>>
    /\ requests = 0
    /\ apiFailed = FALSE
    /\ ppc = "fetching"
    /\ existing = [total_usdc |-> 0, total_txs |-> 0, last_block |-> 0]
    /\ datafile = [exists |-> FALSE, total_usdc |-> 0, total_txs |-> 0,
                   last_block |-> 0, stamp |-> 0]
    /\ result = NoResult
    /\ unanswered = {}
    /\ run = 1
    /\ prevFile = datafile
    /\ prevChainLen = 0
    /\ prevFailed = FALSE
    /\ FetchIdle
    /\ CacheIdle
    /\ AvgIdle
    /\ OwnIdle
    /\ MergeIdle
    /\ LogIdle
    /\ RpcIdle
    /\ DecodeIdle
    /\ DlIdle
    /\ P4Idle
    /\ BatchIdle

\* generate_exercisers.main after the fetch: filter, read every receipt, add
\* the amount to the sender's entry, build the list, write the file.
\* `failing` are the receipt calls that came back without a result.
ExProcess ==
    /\ script = "exercisers"
    /\ ppc = "fetched"
    /\ LET exercise_txs == SelectSeq(new_txs, IsExercise)
       IN  \E failing \in SUBSET Range(exercise_txs) :
              LET ad == AddressData(exercise_txs, failing,
                                    [data |-> [a \in {} |-> 0], errors |-> 0])
                  exercisers == [a \in DOMAIN ad.data |->
                                    [total_usdc |-> Round2(ad.data[a].total_usdc),
                                     exercises |-> ad.data[a].exercises]]
                  sums == SumTotals(exercisers, DOMAIN exercisers)
              IN  /\ unanswered' = failing
                  /\ result' = [written |-> TRUE,
                                exercisers |-> exercisers,
                                total_addresses |-> Cardinality(DOMAIN exercisers),
                                total_usdc |-> Round2(sums.usdc),
                                total_exercises |-> sums.n,
                                errors |-> ad.errors]
    /\ ppc' = "done"
    /\ UNCHANGED <<script, chain, page_size, qstart, page, new_txs, requests, apiFailed,
                   existing, datafile, run, prevFile, prevChainLen, prevFailed>>
    /\ UNCHANGED othersOfPage

NextExercisers == PageResponse \/ PageError \/ ExProcess

SpecExercisers == InitExercisers /\ [][NextExercisers]_vars

\* ------------------------------------- the Routescan calls that get no answer

\* resp = requests.get(ROUTESCAN_API, params=params) of the list fetchers: no
\* timeout argument, no try / except, no retry loop.  With no timeout requests
\* waits for the server without limit, so a request that is never answered
\* leaves the script inside the call.
PageNoAnswer ==
    /\ ppc = "fetching"
    /\ ppc' = "blocked"
    /\ requests' = requests + 1
    /\ UNCHANGED <<script, chain, page_size, qstart, page, new_txs, apiFailed,
                   existing, datafile, result, unanswered, run, prevFile, prevChainLen,
                   prevFailed>>
    /\ UNCHANGED othersOfPage

\* The same call in get_usdc_amount_from_receipt / get_usdc_from_receipt /
\* get_tx_details_from_receipt, made once for every exercise transaction.
ReceiptNoAnswer ==
    /\ script \in {"calc_usd", "update_usd", "exercisers"}
    /\ ppc = "fetched"
    /\ SelectSeq(new_txs, IsExercise) # <<>>
    /\ ppc' = "blocked"
    /\ UNCHANGED <<script, chain, page_size, qstart, page, new_txs, requests, apiFailed,
                   existing, datafile, result, unanswered, run, prevFile, prevChainLen,
                   prevFailed>>
    /\ UNCHANGED othersOfPage

InitNet == InitPage \/ InitExercisers

NextNet == NextPage \/ ExProcess \/ PageNoAnswer \/ ReceiptNoAnswer

SpecNet == InitNet /\ [][NextNet]_vars

\* The script is one thread that runs whenever it can, and every request gets
\* one of its outcomes.
FairNet == SpecNet /\ WF_vars(NextNet)

\* ------------------------------------------------- calculate_avg_lock

MaxLockTxs == 4

SecondsPerDay == 86400


\* lock_end - tx_time of an exercise transaction, in seconds: the four
\* boundaries, a second below the first, values inside the buckets, and two
\* values extract_lock_duration rejects.
Deltas ==
    { d * SecondsPerDay : d \in {5, 30, 45, 90, 180, 200, 365, 400} }
        \cup {30 * SecondsPerDay - 1, 0, 3 * 365 * SecondsPerDay + 1}

\* duration_seconds = lock_end - tx_time; None when it is <= 0 or above 3 years
extract_lock_duration(delta) ==
    IF delta <= 0 \/ delta > 3 * 365 * SecondsPerDay THEN NoDuration ELSE delta

\* The if / elif chain of the bucket loop.  days = d / 86400 is a float
\* division of an integer below 2^27, so days < n holds exactly when
\* d < n * 86400.
BucketOfClosed(d) ==
    IF d <= 30 * SecondsPerDay THEN "< 1 month"
    ELSE IF d <= 90 * SecondsPerDay THEN "1-3 months"
    ELSE IF d <= 180 * SecondsPerDay THEN "3-6 months"
    ELSE IF d <= 365 * SecondsPerDay THEN "6-12 months"
    ELSE "1-2 years"

BucketOf(d) ==
    IF d < 30 * SecondsPerDay THEN "< 1 month"
    ELSE IF d < 90 * SecondsPerDay THEN "1-3 months"
    ELSE IF d < 180 * SecondsPerDay THEN "3-6 months"
    ELSE IF d < 365 * SecondsPerDay THEN "6-12 months"
    ELSE "1-2 years"

\* buckets[name] += 1
IncrNone(b, name) == b
Incr(b, name) == [b EXCEPT ![name] = b[name] + 1]

RECURSIVE ValidDurations(_)
ValidDurations(ts) ==
    IF ts = <<>> THEN <<>>
    ELSE LET dur == extract_lock_duration(Head(ts))
         IN  IF dur # NoDuration THEN <<dur>> \o ValidDurations(Tail(ts))
             ELSE ValidDurations(Tail(ts))

InitAvg ==
    /\ script = "avg_lock"
    /\ lock_txs \in UNION { [1..n -> Deltas] : n \in 0..MaxLockTxs }
    /\ durations = <<>>
    /\ buckets = NoBuckets
    /\ bi = 0
    /\ lpc = "fetched"
    /\ avgfile = [written |-> FALSE]
    /\ FetchIdle
    /\ PageIdle
    /\ CacheIdle
    /\ OwnIdle
    /\ MergeIdle
    /\ LogIdle
    /\ RpcIdle
    /\ DecodeIdle
    /\ DlIdle
    /\ P4Idle
    /\ BatchIdle

\* The loop that collects the valid durations; main returns without writing
\* when there is none.
AvgDecode ==
    /\ script = "avg_lock"
    /\ lpc = "fetched"
    /\ durations' = ValidDurations(lock_txs)
    /\ lpc' = IF durations' = <<>> THEN "nodata" ELSE "bucketing"
    /\ UNCHANGED <<script, lock_txs, buckets, bi, avgfile>>
    /\ UNCHANGED othersOfAvg

\* One pass of `for d in durations`.
AvgBucket ==
    /\ script = "avg_lock"
    /\ lpc = "bucketing"
    /\ bi < Len(durations)
    /\ buckets' = Incr(buckets, BucketOf(durations[bi + 1]))
    /\ bi' = bi + 1
    /\ UNCHANGED <<script, lock_txs, durations, lpc, avgfile>>
    /\ UNCHANGED othersOfAvg

\* json.dump(result, f) after the loop
AvgSave ==
    /\ script = "avg_lock"
    /\ lpc = "bucketing"
    /\ bi = Len(durations)
    /\ avgfile' = [written |-> TRUE,
                   total_exercises |-> Len(lock_txs),
                   valid_durations |-> Len(durations),
                   distribution |-> buckets]
    /\ lpc' = "done"
    /\ UNCHANGED <<script, lock_txs, durations, buckets, bi>>
    /\ UNCHANGED othersOfAvg

NextAvg == AvgDecode \/ AvgBucket \/ AvgSave

SpecAvg == InitAvg /\ [][NextAvg]_vars

\* ------------------------------- resolver / cache phase: fetch_early_exits

\* Transaction hashes are 1..MaxEvents.
Hashes == 1..MaxEvents

\* What the receipt of a transaction holds: none (eth_getTransactionReceipt has
\* no result for it), or the DOLO transferred out of the veDOLO contract by role
\* (burn address, fee recipient, user), in 1/1000 DOLO.  The second kind is a
\* receipt without any DOLO Transfer out of the veDOLO contract.
ReceiptKinds ==
    { [found |-> FALSE, burn |-> 0, recoup |-> 0, user |-> 0],
      [found |-> TRUE, burn |-> 0, recoup |-> 0, user |-> 0],
      [found |-> TRUE, burn |-> 0, recoup |-> 0, user |-> 100],
      [found |-> TRUE, burn |-> 4, recoup |-> 12, user |-> 84] }

\* Event lists name their hashes in order of first appearance; several Withdraw
\* events may carry one transaction hash.
EventLists ==
    UNION { { e \in [1..n -> Hashes] :
                \A i \in 1..n : \/ e[i] = 1
                                \/ \E j \in 1..(i - 1) : e[j] >= e[i] - 1 }
            : n \in 0..MaxEvents }

\* round(a / b * 100, 2), held in 1/100 percent.
PctOf(a, b) == IF b > 0 THEN (a * 10000 + (b \div 2)) \div b ELSE 0

NoPenalty ==
    [present |-> FALSE, burn_fee |-> 0, recoup_fee |-> 0, total_penalty |-> 0,
     original_locked |-> 0, user_received |-> 0, penalty_pct |-> 0,
     is_early_exit |-> FALSE]

\* fetch_receipt_and_calc_penalty on a receipt that was found.
Penalty(r) ==
    [present |-> TRUE,
     burn_fee |-> r.burn,
     recoup_fee |-> r.recoup,
     total_penalty |-> r.burn + r.recoup,
     original_locked |-> r.burn + r.recoup + r.user,
     user_received |-> r.user,
     penalty_pct |-> PctOf(r.burn + r.recoup, r.burn + r.recoup + r.user),
     is_early_exit |-> (r.burn + r.recoup > 0)]

\* The dict operations: `k in cache`, cache.get(k), cache[k] = v.
Has(c, k) == \E i \in DOMAIN c : c[i].k = k
Get(c, k) == IF Has(c, k) THEN c[CHOOSE i \in DOMAIN c : c[i].k = k].v ELSE NoPenalty
Put(c, k, v) ==
    IF Has(c, k)
    THEN [i \in DOMAIN c |-> IF c[i].k = k THEN [k |-> k, v |-> v] ELSE c[i]]
    ELSE Append(c, [k |-> k, v |-> v])
Keys(c) == {c[i].k : i \in DOMAIN c}

\* The cache a complete earlier resolution of the hashes in S leaves behind.
RECURSIVE CacheOf(_, _)
CacheOf(evs, S) ==
    IF evs = <<>> THEN <<>>
    ELSE LET rest == CacheOf(SubSeq(evs, 1, Len(evs) - 1), S)
             h == evs[Len(evs)]
         IN  IF h \in S /\ receipts[h].found /\ ~Has(rest, h)
             THEN Append(rest, [k |-> h, v |-> Penalty(receipts[h])])
             ELSE rest

\* tx_hashes_needed = [ev["tx_hash"] for ev in events if ev["tx_hash"] not in cache]
IsNeededAlways(c, h) == TRUE
IsNeeded(c, h) == ~Has(c, h)

NeededOf(evs, c) == SelectSeq(evs, LAMBDA h : IsNeeded(c, h))

\* fetch_one(tx_hash) returns (tx_hash, penalty): what the task leaves of the cache.
AfterFetchOneWriting(c, h, v) == Put(c, h, v)
AfterFetchOne(c, h, v) == c

\* if result: cache[tx_hash] = result (else: errors += 1), by the main thread.
MergeUnconditional(c, h, res) ==
    Put(c, h, IF res = "ok" THEN Penalty(receipts[h]) ELSE NoPenalty)
Merge(c, h, res) == IF res = "ok" THEN Put(c, h, Penalty(receipts[h])) ELSE c

\* else: errors += 1
CountError(e) == e + 1

\* The as_completed loop and the `with` block are left when every future of
\* the chunk has been yielded.
BatchDoneEarly(infl) == TRUE
BatchDone(infl) == infl = {}

NumChunks == CeilDiv(Len(needed), PoolSize)

\* Positions of `needed` that chunk ci (0-based) holds.
ChunkPositions(ci) ==
    { i \in DOMAIN needed : ci * PoolSize < i /\ i <= (ci + 1) * PoolSize }

\* if (chunk_idx + 1) % 10 == 0 or (chunk_idx + 1) == len(chunks)
FlushDue(ci) == ((ci + 1) % FLUSH_EVERY = 0) \/ (ci + 1 = NumChunks)

\* Phase 4: the fold over the events and the statistics.
RECURSIVE Fold(_, _)
Fold(evs, c) ==
    IF evs = <<>>
    THEN [early |-> 0, normal |-> 0, burn |-> 0, recoup |-> 0, penalty |-> 0, locked |-> 0]
    ELSE LET rest == Fold(Tail(evs), c)
             pen == Get(c, Head(evs))
         IN  IF ~pen.present THEN rest
             ELSE IF pen.is_early_exit
                  THEN [early |-> rest.early + 1,
                        normal |-> rest.normal,
                        burn |-> rest.burn + pen.burn_fee,
                        recoup |-> rest.recoup + pen.recoup_fee,
                        penalty |-> rest.penalty + pen.total_penalty,
                        locked |-> rest.locked + pen.original_locked]
                  ELSE [rest EXCEPT !.normal = rest.normal + 1]

StatsOf(evs, c) ==
    LET f == Fold(evs, c)
    IN  [written |-> TRUE,
         total_early_exits |-> f.early,
         total_normal_exits |-> f.normal,
         total_withdrawals |-> Len(evs),
         total_burn_fee_dolo |-> Round2(f.burn),
         total_recoup_fee_dolo |-> Round2(f.recoup),
         total_penalty_dolo |-> Round2(f.penalty),
         total_original_locked |-> Round2(f.locked),
         avg_penalty_pct |-> PctOf(f.penalty, f.locked)]

InitCache ==
    /\ script = "early_exits"
    /\ events \in EventLists
    /\ receipts \in [Hashes -> ReceiptKinds]
    /\ \A h \in Hashes : h \notin Range(events) => ~receipts[h].found
    /\ \E S \in SUBSET Range(events) :
          /\ \A h \in S : receipts[h].found
          /\ cachefile = IF S = {} THEN [state |-> "absent", data |-> <<>>]
                         ELSE [state |-> "valid", data |-> CacheOf(events, S)]
    /\ cache = <<>>
    /\ needed = <<>>
    /\ chunk_idx = 0
    /\ inflight = {}
    /\ futures = NoFutures
    /\ batchStart = <<>>
    /\ workerWrote = FALSE
    /\ failed = {}
    /\ cpc = "load"
    /\ errors = 0
    /\ stats = NoStats
    /\ crun = 1
    /\ preloaded = {}
    /\ calls = {}
    /\ recalled = {}
    /\ overwrote = {}
    /\ dirtyChunks = {}
    /\ transient = FALSE
    /\ prevCacheFile = cachefile
    /\ prevStats = NoStats
    /\ prevOk = FALSE
    /\ FetchIdle
    /\ PageIdle
    /\ AvgIdle
    /\ OwnIdle
    /\ MergeIdle
    /\ LogIdle
    /\ RpcIdle
    /\ DecodeIdle
    /\ DlIdle
    /\ P4Idle
    /\ BatchIdle

\* json.load(f) raises on a file that is not a JSON document; nothing catches it.
LoadableAlways(file) == TRUE
Loadable(file) == file.state # "truncated"

\* main from the load of the cache to the list of hashes to resolve.
EeStart ==
    /\ script = "early_exits"
    /\ cpc = "load"
    /\ IF ~Loadable(cachefile)
       THEN /\ cpc' = "failed_load"
            /\ UNCHANGED <<cache, needed, preloaded>>
       ELSE LET c == IF cachefile.state = "valid" THEN cachefile.data ELSE <<>>
            IN  /\ cache' = c
                /\ preloaded' = Keys(c)
                /\ IF events = <<>>
                   THEN /\ cpc' = "done"
                        /\ needed' = <<>>
                   ELSE /\ needed' = NeededOf(events, c)
                        /\ cpc' = IF NeededOf(events, c) # <<>> THEN "submit" ELSE "stats"
    /\ UNCHANGED <<script, events, receipts, cachefile, chunk_idx, inflight, futures,
                   batchStart, workerWrote, failed, errors, stats, crun, calls, recalled,
                   overwrote, dirtyChunks, transient, prevCacheFile, prevStats, prevOk>>
    /\ UNCHANGED othersOfCache

\* with ThreadPoolExecutor(max_workers=MAX_WORKERS): executor.submit(fetch_one, th)
\* for every hash of the chunk.  A chunk holds at most MAX_WORKERS hashes, so
\* every task gets a thread at once.
EeSubmit ==
    /\ script = "early_exits"
    /\ cpc = "submit"
    /\ inflight' = inflight \cup ChunkPositions(chunk_idx)
    /\ futures' = [i \in inflight \cup ChunkPositions(chunk_idx) |->
                        IF i \in inflight THEN futures[i] ELSE "running"]
    /\ batchStart' = cache
    /\ calls' = calls \cup {needed[i] : i \in ChunkPositions(chunk_idx)}
    /\ recalled' = recalled \cup
            {needed[i] : i \in {j \in ChunkPositions(chunk_idx) : Has(cache, needed[j])}}
    /\ cpc' = "collect"
    /\ UNCHANGED <<script, events, receipts, cache, cachefile, needed, chunk_idx,
                   workerWrote, failed, errors, stats, crun, preloaded, overwrote, dirtyChunks,
                   transient, prevCacheFile, prevStats, prevOk>>
    /\ UNCHANGED othersOfCache

\* A worker thread runs fetch_one to its end; ok = FALSE is a call that came
\* back without a receipt although the chain has one.
EeWorker ==
    /\ script = "early_exits"
    /\ \E i \in inflight : \E ok \in BOOLEAN :
          LET h == needed[i]
              got == ok /\ receipts[h].found
          IN  /\ futures[i] = "running"
              /\ futures' = [futures EXCEPT ![i] = IF got THEN "ok" ELSE "none"]
              /\ cache' = AfterFetchOne(cache, h, Penalty(receipts[h]))
              /\ workerWrote' = (workerWrote \/ cache' # cache)
              /\ transient' = (transient \/ (~ok /\ receipts[h].found))
    /\ UNCHANGED <<script, events, receipts, cachefile, needed, chunk_idx, inflight,
                   batchStart, failed, cpc, errors, stats, crun, preloaded, calls, recalled,
                   overwrote, dirtyChunks, prevCacheFile, prevStats, prevOk>>
    /\ UNCHANGED othersOfCache

\* One pass of `for future in as_completed(futures)` in the main thread: any
\* finished future may be yielded next.  After the last one the pool is left
\* and the flush condition is evaluated.
EeCollect ==
    /\ script = "early_exits"
    /\ cpc = "collect"
    /\ \E i \in inflight :
          LET h == needed[i]
          IN  /\ futures[i] # "running"
              /\ inflight' = inflight \ {i}
              /\ cache' = Merge(cache, h, futures[i])
              /\ IF futures[i] = "ok"
                 THEN /\ overwrote' = IF Has(cache, h) THEN overwrote \cup {h} ELSE overwrote
                      /\ dirtyChunks' = dirtyChunks \cup {chunk_idx}
                      /\ UNCHANGED <<errors, failed>>
                 ELSE /\ errors' = CountError(errors)
                      /\ failed' = failed \cup {i}
                      /\ UNCHANGED <<overwrote, dirtyChunks>>
              /\ IF ~BatchDone(inflight \ {i})
                 THEN UNCHANGED <<cpc, chunk_idx>>
                 ELSE IF FlushDue(chunk_idx)
                      THEN /\ cpc' = "flush_open"
                           /\ UNCHANGED chunk_idx
                      ELSE /\ cpc' = "submit"
                           /\ chunk_idx' = chunk_idx + 1
    /\ UNCHANGED <<script, events, receipts, cachefile, needed, futures, batchStart,
                   workerWrote, stats, crun, preloaded, calls, recalled, transient,
                   prevCacheFile, prevStats, prevOk>>
    /\ UNCHANGED othersOfCache

\* open(CACHE_FILE, "w"): the file is truncated in place.
EeOpenCacheFile ==
    /\ script = "early_exits"
    /\ cpc \in {"flush_open", "final_open"}
    /\ cachefile' = [state |-> "truncated", data |-> <<>>]
    /\ cpc' = IF cpc = "flush_open" THEN "flush_write" ELSE "final_write"
    /\ UNCHANGED <<script, events, receipts, cache, needed, chunk_idx, inflight, futures,
                   batchStart, workerWrote, failed, errors, stats, crun, preloaded, calls,
                   recalled, overwrote, dirtyChunks, transient, prevCacheFile, prevStats,
                   prevOk>>
    /\ UNCHANGED othersOfCache

\* json.dump(cache, f) and the close of the file; then the next chunk, or the
\* final save after the last one.
EeDumpCache ==
    /\ script = "early_exits"
    /\ cpc \in {"flush_write", "final_write"}
    /\ cachefile' = [state |-> "valid", data |-> cache]
    /\ dirtyChunks' = {}
    /\ IF cpc = "final_write"
       THEN /\ cpc' = "stats"
            /\ UNCHANGED chunk_idx
       ELSE IF chunk_idx + 1 < NumChunks
            THEN /\ cpc' = "submit"
                 /\ chunk_idx' = chunk_idx + 1
            ELSE /\ cpc' = "final_open"
                 /\ UNCHANGED chunk_idx
    /\ UNCHANGED <<script, events, receipts, cache, needed, inflight, futures, batchStart,
                   workerWrote, failed, errors, stats, crun, preloaded, calls, recalled, overwrote,
                   transient, prevCacheFile, prevStats, prevOk>>
    /\ UNCHANGED othersOfCache

\* Phase 4 and the writing of early_exits.json.
EeStats ==
    /\ script = "early_exits"
    /\ cpc = "stats"
    /\ stats' = StatsOf(events, cache)
    /\ cpc' = "done"
    /\ UNCHANGED <<script, events, receipts, cache, cachefile, needed, chunk_idx, inflight,
                   futures, batchStart, workerWrote, failed, errors, crun, preloaded, calls,
                   recalled, overwrote, dirtyChunks, transient, prevCacheFile, prevStats,
                   prevOk>>
    /\ UNCHANGED othersOfCache

\* The process is killed (the job is cancelled, the machine stops): what it
\* held in memory is gone, the files stay as they are.
EeCrash ==
    /\ script = "early_exits"
    /\ cpc \in {"submit", "collect", "flush_open", "flush_write", "final_open",
                "final_write", "stats"}
    /\ cpc' = "crashed"
    /\ cache' = <<>>
    /\ needed' = <<>>
    /\ chunk_idx' = 0
    /\ inflight' = {}
    /\ futures' = NoFutures
    /\ batchStart' = <<>>
    /\ errors' = 0
    /\ preloaded' = {}
    /\ calls' = {}
    /\ recalled' = {}
    /\ overwrote' = {}
    /\ transient' = FALSE
    /\ failed' = {}
    /\ UNCHANGED <<script, events, receipts, cachefile, workerWrote, stats, crun,
                   dirtyChunks, prevCacheFile, prevStats, prevOk>>
    /\ UNCHANGED othersOfCache

\* The script is run again over the same chain.
EeNextRun ==
    /\ script = "early_exits"
    /\ cpc \in {"done", "crashed"}
    /\ crun < MaxRuns
    /\ crun' = crun + 1
    /\ prevCacheFile' = cachefile
    /\ prevStats' = stats
    /\ prevOk' = (cpc = "done" /\ stats.written)
    /\ cache' = <<>>
    /\ needed' = <<>>
    /\ chunk_idx' = 0
    /\ inflight' = {}
    /\ futures' = NoFutures
    /\ batchStart' = <<>>
    /\ errors' = 0
    /\ stats' = NoStats
    /\ preloaded' = {}
    /\ calls' = {}
    /\ dirtyChunks' = {}
    /\ transient' = FALSE
    /\ recalled' = {}
    /\ overwrote' = {}
    /\ cpc' = "load"
    /\ failed' = {}
    /\ UNCHANGED <<script, events, receipts, cachefile, workerWrote>>
    /\ UNCHANGED othersOfCache

NextCache ==
    \/ EeStart
    \/ EeSubmit
    \/ EeWorker
    \/ EeCollect
    \/ EeOpenCacheFile
    \/ EeDumpCache
    \/ EeStats
    \/ EeCrash
    \/ EeNextRun

SpecCache == InitCache /\ [][NextCache]_vars

\* ---------------- resolver / cache phase: update_data.fetch_locked_dolo

Tokens == 1..MaxTokens

\* What locked(tid) returns as make_batch_call decodes it: the amount in DOLO
\* and the end of the lock; an empty answer decodes to amount 0, end 0.
LockKinds == { [amount |-> 0, end |-> 0], [amount |-> 5, end |-> 9] }

\* all_token_ids = sorted({...}): ascending, no id twice.
TokenLists ==
    UNION { { t \in [1..n -> Tokens] : \A i \in 1..n : \A j \in 1..n : i < j => t[i] < t[j] }
            : n \in 0..MaxTokens }

\* cache[str(tid)] and int(k): a cache key is the decimal string of the id.
StrOf(tid) == <<"str", tid>>
IntOf(k) == k[2]

\* The item make_batch_call returns for a token; error = FALSE stands for an
\* item without the "error" key.
LockedItem(tid, bad) ==
    IF bad
    THEN [amount |-> 0, end |-> 0, error |-> TRUE]
    ELSE [amount |-> receipts[tid].amount, end |-> receipts[tid].end, error |-> FALSE]

\* cached_ids = {int(k) for k in cache.keys()}
CachedIds(c) == {IntOf(c[i].k) : i \in DOMAIN c}

\* missing = [tid for tid in all_token_ids if tid not in cached_ids]
MissingOf(ids, c) == SelectSeq(ids, LAMBDA t : t \notin CachedIds(c))

\* chunks = [missing[i:i+BATCH_SIZE] for i in range(0, len(missing), BATCH_SIZE)]
LdNumChunks == CeilDiv(Len(needed), BatchSize)

\* Positions of `missing` that chunk ci (0-based) holds.
LdChunk(ci) == { i \in DOMAIN needed : ci * BatchSize < i /\ i <= (ci + 1) * BatchSize }

\* window = chunks[chunk_idx:chunk_idx + MAX_WORKERS]
Window(ci) == { c \in ci..(ci + PoolSize - 1) : c < LdNumChunks }

\* The elements of a set of numbers in ascending order.
RECURSIVE Ascending(_)
Ascending(S) ==
    IF S = {} THEN <<>>
    ELSE LET m == CHOOSE x \in S : \A y \in S : x <= y
         IN  <<m>> \o Ascending(S \ {m})

RECURSIVE PutItems(_, _, _)
PutItems(c, ps, errs) ==
    IF ps = <<>> THEN c
    ELSE PutItems(Put(c, StrOf(needed[Head(ps)]), LockedItem(needed[Head(ps)], Head(ps) \in errs)),
                  Tail(ps), errs)

\* for tid, data_item in future.result().items(): cache[str(tid)] = data_item
\* `out` holds the decoded items first, then the error-marked ones.
LdMerge(c, ci, errs) ==
    PutItems(c, Ascending(LdChunk(ci) \ errs) \o Ascending(errs), errs)

\* if chunk_idx % 50 == 0 or chunk_idx >= len(chunks)
SaveDue(ci) == (ci % SAVE_EVERY = 0) \/ (ci >= LdNumChunks)

InitLocked ==
    /\ script = "locked_dolo"
    /\ events \in TokenLists
    /\ receipts \in [Tokens -> LockKinds]
    /\ \A t \in Tokens : t \notin Range(events) => receipts[t].amount = 0
    /\ \E S \in SUBSET Range(events) : \E E \in SUBSET S :
          \/ cachefile =
                IF S = {} THEN [state |-> "absent", data |-> <<>>]
                ELSE [state |-> "valid",
                      data |-> [i \in 1..Cardinality(S) |->
                                  [k |-> StrOf(Ascending(S)[i]),
                                   v |-> LockedItem(Ascending(S)[i], Ascending(S)[i] \in E)]]]
          \* locked_cache.json damaged from outside: not a JSON document
          \/ S = {} /\ cachefile = [state |-> "truncated", data |-> <<>>]
    /\ cache = <<>>
    /\ needed = <<>>
    /\ chunk_idx = 0
    /\ inflight = {}
    /\ futures = NoFutures
    /\ batchStart = <<>>
    /\ workerWrote = FALSE
    /\ failed = {}
    /\ cpc = "load"
    /\ errors = 0
    /\ stats = NoStats
    /\ crun = 1
    /\ preloaded = {}
    /\ calls = {}
    /\ recalled = {}
    /\ overwrote = {}
    /\ dirtyChunks = {}
    /\ transient = FALSE
    /\ prevCacheFile = cachefile
    /\ prevStats = NoStats
    /\ prevOk = FALSE
    /\ FetchIdle
    /\ PageIdle
    /\ AvgIdle
    /\ OwnIdle
    /\ MergeIdle
    /\ LogIdle
    /\ RpcIdle
    /\ DecodeIdle
    /\ DlIdle
    /\ P4Idle
    /\ BatchIdle

\* fetch_locked_dolo from load_cache to the list of missing ids.
LdStart ==
    /\ script = "locked_dolo"
    /\ cpc = "load"
    /\ IF ~Loadable(cachefile)
       THEN /\ cpc' = "failed_load"
            /\ UNCHANGED <<cache, needed, preloaded>>
       ELSE LET c == IF cachefile.state = "valid" THEN cachefile.data ELSE <<>>
            IN  /\ cache' = c
                /\ preloaded' = Keys(c)
                /\ needed' = MissingOf(events, c)
                /\ cpc' = IF MissingOf(events, c) # <<>> THEN "submit" ELSE "done"
    /\ UNCHANGED <<script, events, receipts, cachefile, chunk_idx, inflight, futures,
                   batchStart, workerWrote, failed, errors, stats, crun, calls, recalled,
                   overwrote, dirtyChunks, transient, prevCacheFile, prevStats, prevOk>>
    /\ UNCHANGED othersOfCache

\* with ThreadPoolExecutor(max_workers=MAX_WORKERS): executor.submit(make_batch_call, c)
\* for every chunk of the window.  A window holds at most MAX_WORKERS chunks.
LdSubmit ==
    /\ script = "locked_dolo"
    /\ cpc = "submit"
    /\ inflight' = inflight \cup Window(chunk_idx)
    /\ futures' = [c \in inflight \cup Window(chunk_idx) |->
                        IF c \in inflight THEN futures[c]
                        ELSE [state |-> "running", errs |-> {}]]
    /\ batchStart' = cache
    /\ calls' = calls \cup {needed[i] : i \in UNION {LdChunk(c) : c \in Window(chunk_idx)}}
    /\ cpc' = "collect"
    /\ UNCHANGED <<script, events, receipts, cache, cachefile, needed, chunk_idx,
                   workerWrote, failed, errors, stats, crun, preloaded, recalled, overwrote,
                   dirtyChunks, transient, prevCacheFile, prevStats, prevOk>>
    /\ UNCHANGED othersOfCache

\* A worker thread runs make_batch_call to its end: every token of the chunk
\* gets its decoded item, or the error-marked item when the three attempts
\* did not deliver it.  The function has only local variables.  (A response
\* list is taken to hold an item for every id of the batch; the function is
\* modelled response by response under make_batch_call below.)
LdWorker ==
    /\ script = "locked_dolo"
    /\ \E c \in inflight : \E errs \in SUBSET LdChunk(c) :
          /\ futures[c].state = "running"
          /\ futures' = [futures EXCEPT ![c] = [state |-> "done", errs |-> errs]]
          /\ transient' = (transient \/ errs # {})
    /\ UNCHANGED <<script, events, receipts, cache, cachefile, needed, chunk_idx, inflight,
                   batchStart, workerWrote, failed, cpc, errors, stats, crun, preloaded, calls,
                   recalled, overwrote, dirtyChunks, prevCacheFile, prevStats, prevOk>>
    /\ UNCHANGED othersOfCache

\* One pass of `for future in as_completed(futures)` in the main thread; after
\* the last one the pool is left, chunk_idx advances by the window and the
\* save condition is evaluated.
LdCollect ==
    /\ script = "locked_dolo"
    /\ cpc = "collect"
    /\ \E c \in inflight :
          /\ futures[c].state = "done"
          /\ inflight' = inflight \ {c}
          /\ cache' = LdMerge(cache, c, futures[c].errs)
          /\ errors' = errors + Cardinality(futures[c].errs)
          /\ failed' = failed \cup futures[c].errs
          /\ dirtyChunks' = dirtyChunks \cup {c}
          /\ IF ~BatchDone(inflight \ {c})
             THEN UNCHANGED <<cpc, chunk_idx>>
             ELSE /\ chunk_idx' = chunk_idx + Cardinality(Window(chunk_idx))
                  /\ cpc' = IF SaveDue(chunk_idx + Cardinality(Window(chunk_idx)))
                            THEN "save_tmp" ELSE "submit"
    /\ UNCHANGED <<script, events, receipts, cachefile, needed, futures, batchStart,
                   workerWrote, stats, crun, preloaded, calls, recalled, overwrote,
                   transient, prevCacheFile, prevStats, prevOk>>
    /\ UNCHANGED othersOfCache

\* save_cache, first half: json.dump into CACHE_FILE + ".tmp".
LdWriteTmp ==
    /\ script = "locked_dolo"
    /\ cpc \in {"save_tmp", "final_tmp"}
    /\ cpc' = IF cpc = "save_tmp" THEN "save_replace" ELSE "final_replace"
    /\ UNCHANGED <<script, events, receipts, cache, cachefile, needed, chunk_idx, inflight,
                   futures, batchStart, workerWrote, failed, errors, stats, crun, preloaded, calls,
                   recalled, overwrote, dirtyChunks, transient, prevCacheFile, prevStats,
                   prevOk>>
    /\ UNCHANGED othersOfCache

\* save_cache, second half: os.replace(tmp, CACHE_FILE); then the next window,
\* or the save after the loop and the return.
LdReplace ==
    /\ script = "locked_dolo"
    /\ cpc \in {"save_replace", "final_replace"}
    /\ cachefile' = [state |-> "valid", data |-> cache]
    /\ dirtyChunks' = {}
    /\ cpc' = IF cpc = "final_replace" THEN "done"
              ELSE IF chunk_idx < LdNumChunks THEN "submit" ELSE "final_tmp"
    /\ UNCHANGED <<script, events, receipts, cache, needed, chunk_idx, inflight, futures,
                   batchStart, workerWrote, failed, errors, stats, crun, preloaded, calls, recalled,
                   overwrote, transient, prevCacheFile, prevStats, prevOk>>
    /\ UNCHANGED othersOfCache

NextLocked ==
    \/ LdStart
    \/ LdSubmit
    \/ LdWorker
    \/ LdCollect
    \/ LdWriteTmp
    \/ LdReplace

SpecLocked == InitLocked /\ [][NextLocked]_vars

\* One run of each resolver phase with its worker pool.
NextPool ==
    \/ EeStart
    \/ EeSubmit
    \/ EeWorker
    \/ EeCollect
    \/ EeOpenCacheFile
    \/ EeDumpCache
    \/ EeStats
    \/ NextLocked

SpecPool == (InitCache \/ InitLocked) /\ [][NextPool]_vars

\* Both cache files over their runs, interruptions included.
SpecStores == (InitCache \/ InitLocked) /\ [][NextCache \/ NextLocked]_vars

\* ------------------------------------------- update_data.build_ownership

MaxTransfers == 3
MaxOwnBlock == 2

ZERO == "0x0"

TokenIds == {1, 2}

\* An NFT transfer record of tokennfttx: blockNumber, transactionIndex, tokenID,
\* from, to.  Two records of one transaction have the same blockNumber and
\* transactionIndex.
TransferKinds ==
    { [blk |-> b, idx |-> x, tokenID |-> t, from |-> f, to |-> o] :
        b \in 1..MaxOwnBlock, x \in 0..1, t \in TokenIds,
        f \in {ZERO, "a"}, o \in {ZERO, "a", "b"} }

TransferLists ==
    UNION { { l \in [1..n -> TransferKinds] :
                \A i \in 1..n : l[i].blk = MaxOwnBlock => l[i].idx = 0 }
            : n \in 0..MaxTransfers }

\* key=lambda t: (int(t["blockNumber"]), int(t["transactionIndex"]))
SortKey(t) == <<t.blk, t.idx>>

KeyLess(a, b) == a[1] < b[1] \/ (a[1] = b[1] /\ a[2] < b[2])

\* list.sort is stable: a record goes behind every record whose key is not
\* greater than its own.
RECURSIVE InsertStable(_, _)
InsertStable(sorted, t) ==
    IF sorted = <<>> THEN <<t>>
    ELSE IF KeyLess(SortKey(t), SortKey(sorted[Len(sorted)]))
         THEN Append(InsertStable(SubSeq(sorted, 1, Len(sorted) - 1), t), sorted[Len(sorted)])
         ELSE Append(sorted, t)

RECURSIVE SortStable(_)
SortStable(l) ==
    IF l = <<>> THEN <<>>
    ELSE InsertStable(SortStable(SubSeq(l, 1, Len(l) - 1)), l[Len(l)])

\* for tx in txs: ownership[token_id] = to_addr (a dict: a key keeps the
\* place of its first assignment)
RECURSIVE Replay(_, _)
Replay(l, own) ==
    IF l = <<>> THEN own
    ELSE Replay(Tail(l), Put(own, Head(l).tokenID, Head(l).to))

Minted(l) == { l[i].tokenID : i \in { j \in DOMAIN l : l[j].from = ZERO } }

\* active_owners: owner -> token ids, owners in the order ownership.items()
\* first shows them; then one holder entry per owner, token_ids sorted.
RECURSIVE ActiveOwners(_, _)
ActiveOwners(own, acc) ==
    IF own = <<>> THEN acc
    ELSE LET tid == Head(own).k
             owner == Head(own).v
         IN  IF owner = ZERO THEN ActiveOwners(Tail(own), acc)
             ELSE IF Has(acc, owner)
                  THEN ActiveOwners(Tail(own), Put(acc, owner, Get(acc, owner) \cup {tid}))
                  ELSE ActiveOwners(Tail(own), Put(acc, owner, {tid}))

build_ownership(l) ==
    LET sorted == SortStable(l)
        own == Replay(sorted, <<>>)
        burned == Cardinality({ i \in DOMAIN own : own[i].v = ZERO })
        active == ActiveOwners(own, <<>>)
    IN  [ownership |-> own,
         holders |-> [i \in DOMAIN active |->
                        [address |-> active[i].k,
                         nft_count |-> Cardinality(active[i].v),
                         token_ids |-> Ascending(active[i].v)]],
         stats |-> [total_minted |-> Cardinality(Minted(l)),
                    total_burned |-> burned,
                    active_nfts |-> Cardinality(Minted(l)) - burned,
                    unique_holders |-> Len(active)]]

InitOwn ==
    /\ script = "nft"
    /\ nft_txs \in TransferLists
    /\ ownership = <<>>
    /\ holders = <<>>
    /\ nft_stats = [total_minted |-> 0, total_burned |-> 0, active_nfts |-> 0,
                    unique_holders |-> 0]
    /\ opc = "txs"
    /\ FetchIdle
    /\ PageIdle
    /\ CacheIdle
    /\ AvgIdle
    /\ MergeIdle
    /\ LogIdle
    /\ RpcIdle
    /\ DecodeIdle
    /\ DlIdle
    /\ P4Idle
    /\ BatchIdle

\* holders, stats = build_ownership(txs)
BuildOwnership ==
    /\ script = "nft"
    /\ opc = "txs"
    /\ nft_txs # <<>>
    /\ LET r == build_ownership(nft_txs)
       IN  /\ ownership' = r.ownership
           /\ holders' = r.holders
           /\ nft_stats' = r.stats
           /\ opc' = IF r.holders = <<>> THEN "exit0" ELSE "built"
    /\ UNCHANGED <<script, nft_txs>>
    /\ UNCHANGED othersOfOwn

\* if not txs: sys.exit(0)
NoTransfers ==
    /\ script = "nft"
    /\ opc = "txs"
    /\ nft_txs = <<>>
    /\ opc' = "exit0"
    /\ UNCHANGED <<script, nft_txs, ownership, holders, nft_stats>>
    /\ UNCHANGED othersOfOwn

NextOwn == BuildOwnership \/ NoTransfers

SpecOwn == InitOwn /\ [][NextOwn]_vars

\* ---------------------------------------- generate_dolo_holders.merge_holders

MaxAddrs == 3
MaxBalance == 2

\* Addresses, as the numbers they are: the order of the lower-case hex
\* strings is the order of the numbers.
HolderAddrs == 1..MaxAddrs

\* What build_balances returns: the addresses holding at least MIN_BALANCE
\* (1 DOLO), with their balance in DOLO.
BalanceMaps == UNION { [S -> 1..MaxBalance] : S \in SUBSET HolderAddrs }

BalanceOf(b, addr) == IF addr \in DOMAIN b THEN b[addr] ELSE 0

\* The entry of one address.
HolderOf(addr) ==
    [address |-> addr,
     balance |-> BalanceOf(eth_balances, addr) + BalanceOf(bera_balances, addr),
     balance_eth |-> BalanceOf(eth_balances, addr),
     balance_bera |-> BalanceOf(bera_balances, addr)]

\* The orders in which `for addr in all_addrs` can go through the set: the
\* iteration order of a set of str follows the string hashes, which differ
\* from one interpreter start to the next.
IterationOrders(S) ==
    { o \in [1..Cardinality(S) -> S] : \A i, j \in DOMAIN o : i # j => o[i] # o[j] }

\* holders.sort(key=lambda h: h["balance"], reverse=True): stable, entries of
\* equal balance keep their order.
RECURSIVE InsertByBalance(_, _)
InsertByBalance(sorted, h) ==
    IF sorted = <<>> THEN <<h>>
    ELSE IF h.balance > sorted[Len(sorted)].balance
         THEN Append(InsertByBalance(SubSeq(sorted, 1, Len(sorted) - 1), h),
                     sorted[Len(sorted)])
         ELSE Append(sorted, h)

RECURSIVE SortByBalance(_)
SortByBalance(l) ==
    IF l = <<>> THEN <<>>
    ELSE InsertByBalance(SortByBalance(SubSeq(l, 1, Len(l) - 1)), l[Len(l)])

\* for i, h in enumerate(holders, 1): h["rank"] = i
Ranked(l) ==
    [i \in DOMAIN l |->
        [address |-> l[i].address, balance |-> l[i].balance,
         balance_eth |-> l[i].balance_eth, balance_bera |-> l[i].balance_bera,
         rank |-> i]]

InitMerge ==
    /\ script = "erc20"
    /\ eth_balances \in BalanceMaps
    /\ bera_balances \in BalanceMaps
    /\ merged = <<>>
    /\ mpc = "balances"
    /\ FetchIdle
    /\ PageIdle
    /\ CacheIdle
    /\ AvgIdle
    /\ OwnIdle
    /\ LogIdle
    /\ RpcIdle
    /\ DecodeIdle
    /\ DlIdle
    /\ P4Idle
    /\ BatchIdle

\* holders = merge_holders(eth_balances, bera_balances)
MergeHolders ==
    /\ script = "erc20"
    /\ mpc = "balances"
    /\ \E o \in IterationOrders(DOMAIN eth_balances \cup DOMAIN bera_balances) :
          merged' = Ranked(SortByBalance([i \in DOMAIN o |-> HolderOf(o[i])]))
    /\ mpc' = "merged"
    /\ UNCHANGED <<script, eth_balances, bera_balances>>
    /\ UNCHANGED othersOfMerge

NextMerge == MergeHolders

SpecMerge == InitMerge /\ [][NextMerge]_vars

\* ------------------------------------- fetch_early_exits.fetch_withdraw_events

MaxLatest == 3

\* step = 10000 in the source; the model's chain is short, so is its step.
step == 2

\* The answer of eth_getLogs for fromBlock .. toBlock: the events of those
\* blocks in ascending order (one event a block, named by its block).
GetLogs(from, to) == Ascending({ b \in chain_logs : from <= b /\ b <= to })

\* if result: all_logs.extend(result)
Extend(logs, res) == IF res # <<>> THEN logs \o res ELSE logs

InitWithdraw ==
    /\ script = "early_exits"
    /\ \E top \in 0..MaxLatest :
          /\ latest_block = top
          /\ chain_logs \in SUBSET (0..top)
    /\ block = 0
    /\ all_logs = <<>>
    /\ ranges = <<>>
    /\ wpc = "latest"
    /\ FetchIdle
    /\ PageIdle
    /\ CacheIdle
    /\ AvgIdle
    /\ OwnIdle
    /\ MergeIdle
    /\ RpcIdle
    /\ DecodeIdle
    /\ DlIdle
    /\ P4Idle
    /\ BatchIdle

\* latest_block = int(rpc_call("eth_blockNumber", []), 16)
WdLatest ==
    /\ script = "early_exits"
    /\ wpc = "latest"
    /\ wpc' = "ranges"
    /\ UNCHANGED <<script, chain_logs, latest_block, block, all_logs, ranges>>
    /\ UNCHANGED othersOfLog

\* rpc_call returned None for eth_blockNumber: int(None, 16) raises TypeError.
WdLatestFails ==
    /\ script = "early_exits"
    /\ wpc = "latest"
    /\ wpc' = "raised"
    /\ UNCHANGED <<script, chain_logs, latest_block, block, all_logs, ranges>>
    /\ UNCHANGED othersOfLog

\* One pass of `while block <= latest_block`; ok = FALSE when rpc_call gave up
\* on the range and returned None.
WdRange ==
    /\ script = "early_exits"
    /\ wpc = "ranges"
    /\ block <= latest_block
    /\ \E ok \in BOOLEAN :
          LET to_block == Min(block + step - 1, latest_block)
              res == IF ok THEN GetLogs(block, to_block) ELSE <<>>
          IN  /\ all_logs' = Extend(all_logs, res)
              /\ ranges' = Append(ranges, [from |-> block, to |-> to_block, ok |-> ok])
              /\ block' = to_block + 1
    /\ UNCHANGED <<script, chain_logs, latest_block, wpc>>
    /\ UNCHANGED othersOfLog

\* return all_logs
WdReturn ==
    /\ script = "early_exits"
    /\ wpc = "ranges"
    /\ block > latest_block
    /\ wpc' = "returned"
    /\ UNCHANGED <<script, chain_logs, latest_block, block, all_logs, ranges>>
    /\ UNCHANGED othersOfLog

NextWithdraw == WdLatest \/ WdLatestFails \/ WdRange \/ WdReturn

SpecWithdraw == InitWithdraw /\ [][NextWithdraw]_vars

\* The function is one thread that runs on, and rpc_call always returns
\* (bounded attempts, each with a timeout).
FairWithdraw == SpecWithdraw /\ WF_vars(NextWithdraw)

\* ------------------------------------------------- fetch_early_exits.rpc_call

NUM_RPC_URLS == 3
RPC_RETRIES == 3

\* The value of a "result" member: JSON null (the receipt of an unknown
\* transaction) or data.
ResultValues == {"null", "data"}

\* Python's None, which is also what json gives for null.
None == "None"
ValueOf(r) == IF r = "null" THEN None ELSE r

\* enumerate(RPC_URLS): the endpoint after endpoint u
NextEndpoint(u) == u + 1

\* The end of one pass of the inner loop without a return: the next attempt,
\* the next endpoint, or `return None` after the loops.
NextTry ==
    IF attempt + 1 < RPC_RETRIES
    THEN /\ attempt' = attempt + 1
         /\ UNCHANGED <<rpc_idx, rpc_ret, rpc_pc>>
    ELSE IF NextEndpoint(rpc_idx) < NUM_RPC_URLS
         THEN /\ rpc_idx' = NextEndpoint(rpc_idx)
              /\ attempt' = 0
              /\ UNCHANGED <<rpc_ret, rpc_pc>>
         ELSE /\ rpc_ret' = None
              /\ rpc_pc' = "returned"
              /\ UNCHANGED <<rpc_idx, attempt>>

\* if attempt < retries - 1: time.sleep(0.5 * (attempt + 1))
Sleep == IF attempt < RPC_RETRIES - 1 THEN Append(rpc_waits, attempt + 1) ELSE rpc_waits

InitRpc ==
    /\ script = "early_exits"
    /\ rpc_idx = 0
    /\ attempt = 0
    /\ tried = <<>>
    /\ rpc_waits = <<>>
    /\ answered = "nothing"
    /\ rpc_ret = "nothing"
    /\ rpc_pc = "post"
    /\ FetchIdle
    /\ PageIdle
    /\ CacheIdle
    /\ AvgIdle
    /\ OwnIdle
    /\ MergeIdle
    /\ LogIdle
    /\ DecodeIdle
    /\ DlIdle
    /\ P4Idle
    /\ BatchIdle

\* if "result" in data: return data["result"]
RpcResult ==
    /\ script = "early_exits"
    /\ rpc_pc = "post"
    /\ \E r \in ResultValues :
          /\ answered' = r
          /\ rpc_ret' = ValueOf(r)
    /\ tried' = Append(tried, rpc_idx)
    /\ rpc_pc' = "returned"
    /\ UNCHANGED <<script, rpc_idx, attempt, rpc_waits>>
    /\ UNCHANGED othersOfRpc

\* An answer with "error" in data, or an exception (the timeout of 20 s, a
\* connection error, a body that is not JSON): both sleep
\* 0.5 * (attempt + 1) unless this was the last attempt, then go on.
RpcAttemptFails ==
    /\ script = "early_exits"
    /\ rpc_pc = "post"
    /\ tried' = Append(tried, rpc_idx)
    /\ rpc_waits' = Sleep
    /\ NextTry
    /\ UNCHANGED <<script, answered>>
    /\ UNCHANGED othersOfRpc

\* A JSON answer with neither "result" nor "error": the loop goes on at once.
RpcOtherAnswer ==
    /\ script = "early_exits"
    /\ rpc_pc = "post"
    /\ tried' = Append(tried, rpc_idx)
    /\ NextTry
    /\ UNCHANGED <<script, answered, rpc_waits>>
    /\ UNCHANGED othersOfRpc

NextRpc == RpcResult \/ RpcAttemptFails \/ RpcOtherAnswer

SpecRpc == InitRpc /\ [][NextRpc]_vars

\* ---------------------------------- extract_lock_duration on the raw input

HEAD_LEN == 10
WORD_LEN == 64
MIN_INPUT_LEN == 266
MAX_LOCK_SECONDS == 3 * 365 * SecondsPerDay

\* The block time of the transactions drawn, and the differences
\* lock_end - timeStamp drawn around the edges of the accepted range.
Stamp0 == 1700000000
DecodeDeltas == {-1, 0, 1, 4319, 4321, SecondsPerDay, MAX_LOCK_SECONDS, MAX_LOCK_SECONDS + 1}
LockEnds == {0} \cup { Stamp0 + d : d \in DecodeDeltas }
OtherWords == {7, Stamp0 + SecondsPerDay}
InputLengths ==
    {0, HEAD_LEN, HEAD_LEN + 3 * WORD_LEN, MIN_INPUT_LEN - 1, MIN_INPUT_LEN,
     MIN_INPUT_LEN + WORD_LEN}

\* The input as the sender's wallet builds it: "0x" and the 8 characters of
\* the selector, then one 64 character big-endian hexadecimal word per
\* parameter.  A character is modelled by its value as a hexadecimal digit
\* (the head's characters are never decoded).
RECURSIVE HexDigits(_)
HexDigits(v) == IF v < 16 THEN <<v>> ELSE Append(HexDigits(v \div 16), v % 16)

Word(v) == [i \in 1..(WORD_LEN - Len(HexDigits(v))) |-> 0] \o HexDigits(v)

CallData(w1, w2, w3, w4, w5) ==
    [i \in 1..HEAD_LEN |-> 15] \o Word(w1) \o Word(w2) \o Word(w3) \o Word(w4) \o Word(w5)

\* Python's s[a:b] for 0 <= a <= b: the characters a .. b - 1, as many as
\* there are.
Slice(s, a, b) ==
    LET hi == IF b < Len(s) THEN b ELSE Len(s)
    IN  IF a >= hi THEN <<>> ELSE SubSeq(s, a + 1, hi)

\* int(s, 16)
RECURSIVE HexToInt(_)
HexToInt(s) ==
    IF s = <<>> THEN 0 ELSE HexToInt(SubSeq(s, 1, Len(s) - 1)) * 16 + s[Len(s)]

\* lock_end = int(params_hex[2*64:3*64], 16) with params_hex = inp[10:]
SecondWordOf(inp) ==
    HexToInt(Slice(Slice(inp, HEAD_LEN, Len(inp)), 1 * WORD_LEN, 2 * WORD_LEN))
LockEndOf(inp) ==
    HexToInt(Slice(Slice(inp, HEAD_LEN, Len(inp)), 2 * WORD_LEN, 3 * WORD_LEN))

\* calculate_avg_lock.extract_lock_duration(tx): seconds, or None
LockSeconds(tx) ==
    IF Len(tx.input) < MIN_INPUT_LEN THEN NoDuration
    ELSE extract_lock_duration(LockEndOf(tx.input) - tx.timeStamp)

\* round(duration_seconds / 86400, 1), in tenths of a day.  The differences
\* drawn are never half way between two tenths (d % 8640 # 4320), where the
\* result would hang on the float nearest to d / 86400.
RoundTenths(d) == (10 * d + SecondsPerDay \div 2) \div SecondsPerDay

\* generate_exercisers.extract_lock_duration(tx): days to one decimal, or None
LockDays(tx) ==
    IF Len(tx.input) < MIN_INPUT_LEN THEN NoDuration
    ELSE LET duration_seconds == LockEndOf(tx.input) - tx.timeStamp
         IN  IF duration_seconds <= 0 \/ duration_seconds > MAX_LOCK_SECONDS
             THEN NoDuration
             ELSE RoundTenths(duration_seconds)

InitDecode ==
    /\ script = "decode"
    /\ abi \in LockEnds
    /\ \E w \in OtherWords, n \in InputLengths, h \in 1..2 :
          dtx = [input |-> Slice(CallData(w, w, abi, w, w), 0, n),
                 timeStamp |-> Stamp0,
                 hash |-> h]
    /\ dur_seconds = NoDuration
    /\ dur_days = NoDuration
    /\ decoded = {}
    /\ FetchIdle
    /\ PageIdle
    /\ CacheIdle
    /\ AvgIdle
    /\ OwnIdle
    /\ MergeIdle
    /\ LogIdle
    /\ RpcIdle
    /\ DlIdle
    /\ P4Idle
    /\ BatchIdle

\* calculate_avg_lock: dur = extract_lock_duration(tx)
DecodeSeconds ==
    /\ script = "decode"
    /\ "avg_lock" \notin decoded
    /\ dur_seconds' = LockSeconds(dtx)
    /\ decoded' = decoded \cup {"avg_lock"}
    /\ UNCHANGED <<script, dtx, abi, dur_days>>
    /\ UNCHANGED othersOfDecode

\* generate_exercisers: lock_days = extract_lock_duration(tx)
DecodeDays ==
    /\ script = "decode"
    /\ "exercisers" \notin decoded
    /\ dur_days' = LockDays(dtx)
    /\ decoded' = decoded \cup {"exercisers"}
    /\ UNCHANGED <<script, dtx, abi, dur_seconds>>
    /\ UNCHANGED othersOfDecode

NextDecode == DecodeSeconds \/ DecodeDays

SpecDecode == InitDecode /\ [][NextDecode]_vars

\* --------------------------------------------------------- fetch_defillama

\* defillama_data.json before the run: missing, the output of an earlier
\* good run, or the placeholder of an earlier failed one.
DlFilesBefore ==
    {NoFile, [exists |-> TRUE, content |-> "old"], [exists |-> TRUE, content |-> "placeholder"]}

\* requests.get / raise_for_status / resp.json(): an exception, or a JSON
\* document.  The document is an object or not; of an object only the shape
\* of the members the code goes on to use matters.
DlResponses ==
    [outcome : {"exception", "not_object"}, tvls : {"dict"}, tokens : {"list"}, chains : {"list"}]
        \cup [outcome : {"object"},
              tvls : {"dict", "list", "null"},
              tokens : {"list", "empty", "dict", "null"},
              chains : {"list", "null"}]

\* Lines 31-55: data.get on something that is not a dict raises
\* AttributeError; tokens_in_usd[-1] on a non-empty dict raises KeyError.
BuildsOutput(r) == r.outcome = "object" /\ r.tokens # "dict"

\* Lines 60-70 after the dump: current_chain_tvls.items() needs a dict,
\* len(output['chains']) a sized value.
ReportsOutput(r) == r.tvls = "dict" /\ r.chains # "null"

InitDl ==
    /\ script = "defillama"
    /\ dl_prev \in DlFilesBefore
    /\ dl_file = dl_prev
    /\ dl_resp = NoResponse
    /\ dl_pc = "get"
    /\ FetchIdle
    /\ PageIdle
    /\ CacheIdle
    /\ AvgIdle
    /\ OwnIdle
    /\ MergeIdle
    /\ LogIdle
    /\ RpcIdle
    /\ DecodeIdle
    /\ P4Idle
    /\ BatchIdle

\* Lines 21-55: the request and the building of `output`.
DlGet ==
    /\ script = "defillama"
    /\ dl_pc = "get"
    /\ \E r \in DlResponses :
          /\ dl_resp' = r
          /\ dl_pc' = IF BuildsOutput(r) THEN "open" ELSE "except"
    /\ UNCHANGED <<script, dl_file, dl_prev>>
    /\ UNCHANGED othersOfDl

\* Line 57: open(OUTPUT_FILE, "w") creates or empties the file; it raises
\* when the file cannot be opened for writing.
DlOpen ==
    /\ script = "defillama"
    /\ dl_pc = "open"
    /\ \/ /\ dl_file' = [exists |-> TRUE, content |-> "empty"]
          /\ dl_pc' = "dump"
       \/ /\ dl_pc' = "except"
          /\ UNCHANGED dl_file
    /\ UNCHANGED <<script, dl_resp, dl_prev>>
    /\ UNCHANGED othersOfDl

\* Line 58: json.dump(output, f) and the close of the file; a write error
\* leaves the part already written.
DlDump ==
    /\ script = "defillama"
    /\ dl_pc = "dump"
    /\ \/ /\ dl_file' = [exists |-> TRUE, content |-> "output"]
          /\ dl_pc' = "report"
       \/ /\ dl_file' \in {[exists |-> TRUE, content |-> c] : c \in {"empty", "partial"}}
          /\ dl_pc' = "except"
    /\ UNCHANGED <<script, dl_resp, dl_prev>>
    /\ UNCHANGED othersOfDl

\* Lines 60-70: file size, total TVL and the prints.
DlReport ==
    /\ script = "defillama"
    /\ dl_pc = "report"
    /\ dl_pc' = IF ReportsOutput(dl_resp) THEN "done" ELSE "except"
    /\ UNCHANGED <<script, dl_resp, dl_file, dl_prev>>
    /\ UNCHANGED othersOfDl

\* Lines 72-80: keep the file if there is one, else write the placeholder.
DlExcept ==
    /\ script = "defillama"
    /\ dl_pc = "except"
    /\ dl_file' = IF dl_file.exists THEN dl_file
                  ELSE [exists |-> TRUE, content |-> "placeholder"]
    /\ dl_pc' = "failed"
    /\ UNCHANGED <<script, dl_resp, dl_prev>>
    /\ UNCHANGED othersOfDl

NextDl == DlGet \/ DlOpen \/ DlDump \/ DlReport \/ DlExcept

SpecDl == InitDl /\ [][NextDl]_vars

\* ------------------------------ fetch_early_exits: phase 4, the statistics

P4Hashes == {1, 2}
P4Stamps == {1, 2}

\* The decoded events: token_id (a veDOLO position is withdrawn once, so the
\* ids differ), timestamp and tx_hash; several events may share a tx_hash.
P4EventLists ==
    UNION { { [i \in 1..n |-> [token_id |-> i, timestamp |-> f[i][1], tx_hash |-> f[i][2]]] :
                f \in [1..n -> P4Stamps \X P4Hashes] }
            : n \in 0..MaxEvents }

\* The cache after phase 3: an entry for the hashes whose receipt was found.
P4Caches ==
    { SelectSeq([h \in 1..Cardinality(P4Hashes) |->
                    [k |-> h, v |-> IF rc[h].found THEN Penalty(rc[h]) ELSE NoPenalty]],
                LAMBDA e : e.v.present) :
        rc \in [P4Hashes -> ReceiptKinds] }

\* entry = {**ev, **penalty}
Entry(ev, penalty) ==
    [token_id |-> ev.token_id, timestamp |-> ev.timestamp, tx_hash |-> ev.tx_hash,
     total_penalty |-> penalty.total_penalty, is_early_exit |-> penalty.is_early_exit]

\* early_exits.sort(key=lambda x: x["timestamp"], reverse=True): a stable
\* sort, so entries of one timestamp keep their order.
RECURSIVE InsertByTimestampAsc(_, _)
InsertByTimestampAsc(sorted, e) ==
    IF sorted = <<>> THEN <<e>>
    ELSE IF e.timestamp < sorted[Len(sorted)].timestamp
         THEN Append(InsertByTimestampAsc(SubSeq(sorted, 1, Len(sorted) - 1), e),
                     sorted[Len(sorted)])
         ELSE Append(sorted, e)

RECURSIVE InsertByTimestamp(_, _)
InsertByTimestamp(sorted, e) ==
    IF sorted = <<>> THEN <<e>>
    ELSE IF e.timestamp > sorted[Len(sorted)].timestamp
         THEN Append(InsertByTimestamp(SubSeq(sorted, 1, Len(sorted) - 1), e),
                     sorted[Len(sorted)])
         ELSE Append(sorted, e)

RECURSIVE SortByTimestamp(_)
SortByTimestamp(l) ==
    IF l = <<>> THEN <<>>
    ELSE InsertByTimestamp(SortByTimestamp(SubSeq(l, 1, Len(l) - 1)), l[Len(l)])

InitP4 ==
    /\ script = "early_exits"
    /\ p4_events \in P4EventLists
    /\ p4_events # <<>>
    /\ p4_cache \in P4Caches
    /\ p4_i = 0
    /\ early_exits = <<>>
    /\ normal_exits = <<>>
    /\ p4_stats = NoStats
    /\ p4_pc = "loop"
    /\ FetchIdle
    /\ PageIdle
    /\ CacheIdle
    /\ AvgIdle
    /\ OwnIdle
    /\ MergeIdle
    /\ LogIdle
    /\ RpcIdle
    /\ DecodeIdle
    /\ DlIdle
    /\ BatchIdle

\* One pass of `for ev in events`, lines 259-274.
P4Event ==
    /\ script = "early_exits"
    /\ p4_pc = "loop"
    /\ p4_i < Len(p4_events)
    /\ LET ev == p4_events[p4_i + 1]
           penalty == Get(p4_cache, ev.tx_hash)
       IN  IF ~penalty.present
           THEN UNCHANGED <<early_exits, normal_exits>>
           ELSE IF penalty.is_early_exit
                THEN /\ early_exits' = Append(early_exits, Entry(ev, penalty))
                     /\ UNCHANGED normal_exits
                ELSE /\ normal_exits' = Append(normal_exits, Entry(ev, penalty))
                     /\ UNCHANGED early_exits
    /\ p4_i' = p4_i + 1
    /\ UNCHANGED <<script, p4_events, p4_cache, p4_stats, p4_pc>>
    /\ UNCHANGED othersOfP4

\* Lines 276-303: the sort, the stats and the output.
P4Output ==
    /\ script = "early_exits"
    /\ p4_pc = "loop"
    /\ p4_i = Len(p4_events)
    /\ early_exits' = SortByTimestamp(early_exits)
    /\ p4_stats' = [StatsOf([i \in DOMAIN p4_events |-> p4_events[i].tx_hash], p4_cache)
                       EXCEPT !.total_early_exits = Len(early_exits),
                              !.total_normal_exits = Len(normal_exits),
                              !.total_withdrawals = Len(p4_events)]
    /\ p4_pc' = "done"
    /\ UNCHANGED <<script, p4_events, p4_cache, p4_i, normal_exits>>
    /\ UNCHANGED othersOfP4

NextP4 == P4Event \/ P4Output

SpecP4 == InitP4 /\ [][NextP4]_vars

\* ------------------------ update_data: make_batch_call, make_vote_batch_call

BATCH_RETRIES == 3
VOTE_RPC_URLS == 3

BatchFunctions == {"make_batch_call", "make_vote_batch_call"}

\* make_batch_call posts to RPC_URL only.
Endpoints(fn) == IF fn = "make_batch_call" THEN 1 ELSE VOTE_RPC_URLS

\* The entry a token gets outside the parsing loop: the error-marked item
\* after the retries of make_batch_call, 0.0 in make_vote_batch_call.
FillValue(fn) == IF fn = "make_batch_call" THEN "error" ELSE "zero"

\* for tid in token_ids: if tid not in out: out[tid] = ...
RECURSIVE FillMissing(_, _, _)
FillMissing(out, ids, v) ==
    IF ids = <<>> THEN out
    ELSE FillMissing(IF Has(out, Head(ids)) THEN out ELSE Put(out, Head(ids), v),
                     Tail(ids), v)

\* for r in results: out[tid] = ..., for the items of the response that the
\* loop got through, in the order of their ids.
RECURSIVE PutParsed(_, _)
PutParsed(out, ps) ==
    IF ps = <<>> THEN out ELSE PutParsed(Put(out, Head(ps), "value"), Tail(ps))

\* What `return out` hands back when the parsing loop has ended:
\* make_vote_batch_call fills the missing ids first, make_batch_call does not.
ReturnedAfterLoop(fn, out, ids) ==
    IF fn = "make_vote_batch_call" THEN FillMissing(out, ids, FillValue(fn)) ELSE out

\* The end of an attempt that did not return: the next attempt; after the
\* last one make_batch_call fills in the error items and returns, while
\* make_vote_batch_call returns `out` if it is not empty, else goes to the
\* next endpoint and after the last one returns zeros.
BatchNextTry(out) ==
    IF b_retry + 1 < BATCH_RETRIES
    THEN /\ b_retry' = b_retry + 1
         /\ b_out' = out
         /\ UNCHANGED <<b_url, b_pc>>
    ELSE IF b_fn = "make_vote_batch_call" /\ out # <<>>
         THEN /\ b_out' = out
              /\ b_pc' = "returned"
              /\ UNCHANGED <<b_url, b_retry>>
         ELSE IF b_url + 1 < Endpoints(b_fn)
              THEN /\ b_url' = b_url + 1
                   /\ b_retry' = 0
                   /\ b_out' = out
                   /\ UNCHANGED b_pc
              ELSE /\ b_out' = FillMissing(out, b_ids, FillValue(b_fn))
                   /\ b_pc' = "returned"
                   /\ UNCHANGED <<b_url, b_retry>>

InitBatch ==
    /\ script = "nft"
    /\ b_fn \in BatchFunctions
    /\ b_ids \in TokenLists
    /\ b_ids # <<>>
    /\ b_url = 0
    /\ b_retry = 0
    /\ b_out = <<>>
    /\ b_pc = "post"
    /\ FetchIdle
    /\ PageIdle
    /\ CacheIdle
    /\ AvgIdle
    /\ OwnIdle
    /\ MergeIdle
    /\ LogIdle
    /\ RpcIdle
    /\ DecodeIdle
    /\ DlIdle
    /\ P4Idle

\* The attempt ends before an item is parsed: status 429 (sleep, continue),
\* raise_for_status, a timeout, a body that is not JSON, or JSON that is not
\* a list of items.
BatchAttemptFails ==
    /\ script = "nft"
    /\ b_pc = "post"
    /\ BatchNextTry(b_out)
    /\ UNCHANGED <<script, b_fn, b_ids>>
    /\ UNCHANGED othersOfBatch

\* A list comes back and the loop over it runs: it gets through the items of
\* the ids in S, then either ends (the list held nothing else) and the
\* function returns, or raises on the next item (no "id", an id out of range,
\* a result that is not hexadecimal) and the attempt is over.
BatchParses ==
    /\ script = "nft"
    /\ b_pc = "post"
    /\ \E S \in SUBSET Range(b_ids) : \E raised \in BOOLEAN :
          LET out == PutParsed(b_out, Ascending(S))
          IN  IF raised
              THEN S # Range(b_ids) /\ BatchNextTry(out)
              ELSE /\ b_out' = ReturnedAfterLoop(b_fn, out, b_ids)
                   /\ b_pc' = "returned"
                   /\ UNCHANGED <<b_url, b_retry>>
    /\ UNCHANGED <<script, b_fn, b_ids>>
    /\ UNCHANGED othersOfBatch

NextBatch == BatchAttemptFails \/ BatchParses

SpecBatch == InitBatch /\ [][NextBatch]_vars

\* ------------------------------------------------------------ all programs

Init ==
    \/ InitFetch \/ InitPage \/ InitExercisers \/ InitAvg \/ InitCache \/ InitLocked
    \/ InitOwn \/ InitMerge \/ InitWithdraw \/ InitRpc \/ InitDecode \/ InitDl \/ InitP4
    \/ InitBatch

Next ==
    \/ NextFetch \/ NextNet \/ NextAvg \/ NextCache \/ NextLocked
    \/ NextOwn \/ NextMerge \/ NextWithdraw \/ NextRpc \/ NextDecode \/ NextDl \/ NextP4
    \/ NextBatch

Spec == Init /\ [][Next]_vars

\* The two pipelines that keep state between runs.
SpecPipelines == (InitPage \/ InitCache) /\ [][NextPage \/ NextCache]_vars

\* ------------------------------------------------ claims: block-range fetchers

CompleteInOrder == all_txs = [i \in 1..Len(src) |-> i]

KeysUnique == \A i \in DOMAIN src : \A j \in DOMAIN src : i # j => Key(i) # Key(j)

\* C1: when a block-range fetcher returns through the "fewer futures than one
\* page" or the "no transactions" path, its output is the complete source history
\* in source order, also when a block holds more records than one page.
\* (Stated for the sources whose records all have different composite keys.)
C1_CompleteOnNormalReturn ==
    (fpc = "done" /\ endedBy \in {"short_page", "no_tx"} /\ KeysUnique)
        => CompleteInOrder

C4_CursorAdvancesAndTerminates ==
    /\ [][(PageOk /\ Len(Page(start_block)) >= cap) => start_block' > start_block]_vars
    /\ <>(fpc = "done")

\* The forced advance ran and the loop has ended.
C4_Witness == stalled /\ fpc = "done"

\* C5: when fetch_all_nft_transfers cannot complete (retries exhausted or an API
\* error) the caller gets no result: it never goes on to process the partial list,
\* which carries no mark, as the complete history.
C5_CompleteOrNothing ==
    (script = "nft" /\ fpc = "done" /\ endedBy \in {"retries", "api_error"})
        => mainpc # "build_ownership"

\* ------------------------------------------------ claims: page-number fetchers

Query == [k \in 1..QueryLen |-> QueryFirst + k - 1]

\* C3 as stated: for a source of N items served in pages of size P the fetcher
\* issues exactly ceil(N/P) page requests and returns all N items in order.
C3_CeilRequests ==
    (ppc = "fetched" /\ ~apiFailed /\ QueryLen >= 1) =>
        /\ requests = CeilDiv(QueryLen, page_size)
        /\ new_txs = Keep(Query)

\* C3 amended: the fetcher issues floor(N/P) + 1 requests (one more than
\* ceil(N/P), an empty last page, exactly when N is a multiple of P) and returns
\* the N items in order (get_all_exercise_txs: the exercise calls among them).
C3_FloorPlusOneRequests ==
    (ppc = "fetched" /\ ~apiFailed) =>
        /\ requests = (QueryLen \div page_size) + 1
        /\ (QueryLen % page_size # 0 => requests = CeilDiv(QueryLen, page_size))
        /\ (QueryLen % page_size = 0 => requests = CeilDiv(QueryLen, page_size) + 1)
        /\ new_txs = Keep(Query)

\* A fetch of two full pages (N a multiple of P) has ended.
C3_Witness ==
    /\ ppc = "fetched"
    /\ ~apiFailed
    /\ QueryLen = 2 * page_size
    /\ requests = 3
    /\ Len(new_txs) >= 1

\* ------------------------------------------------ claims: cache pipelines

\* C6: also after a crash at any step of a flush the cache file on disk is a
\* complete JSON document (the previous cache or the one being flushed), never
\* an empty or truncated file.
C6_CacheFileValidAfterCrash ==
    (script = "early_exits" /\ cpc = "crashed") => cachefile.state # "truncated"

\* C7: whenever the run is interrupted, the resolved futures missing from the
\* cache file belong to at most one batch.
C7_AtMostOneBatchLost ==
    (script = "early_exits" /\ cpc = "crashed") => Cardinality(dirtyChunks) <= 1

\* C8: once a cache entry exists for a transaction hash it is never resolved
\* again and never assigned again.
C8_WriteOnceMemo == recalled = {} /\ overwrote = {}

\* The statistics of a run that starts with an empty cache and meets no
\* transient failure.
ColdStats == StatsOf(events, CacheOf(events, Range(events)))

\* C9: the resolver is called only for hashes absent from the pre-populated
\* cache, and a run without transient failures writes the statistics of a cold
\* run.
C9_Resumable ==
    script = "early_exits" =>
        /\ calls \cap preloaded = {}
        /\ calls \subseteq Range(events)
        /\ (cpc = "done" /\ stats.written /\ ~transient) => stats = ColdStats

\* A run over a partly filled cache resolved the rest and wrote its statistics.
C9_Witness ==
    /\ script = "early_exits"
    /\ cpc = "done"
    /\ stats.written
    /\ ~transient
    /\ preloaded # {}
    /\ calls # {}
    /\ stats.total_early_exits >= 1

\* C10: a second run with no new upstream data, after a first run that resolved
\* every item, leaves the cache file of fetch_early_exits and the data file of
\* update_exercised_usd (total_usdc, total_txs, last_block) as they were, and
\* writes the same statistics.
C10_Idempotent ==
    /\ (/\ script = "early_exits"
        /\ crun >= 2
        /\ prevOk
        /\ prevCacheFile.state = "valid"
        /\ Range(events) \subseteq Keys(prevCacheFile.data))
       => /\ cachefile = prevCacheFile
          /\ (cpc = "done" => stats = prevStats)
    /\ (/\ script = "update_usd"
        /\ run >= 2
        /\ ~prevFailed
        /\ Len(chain) = prevChainLen)
       => datafile = prevFile

\* The second run of update_exercised_usd over an unchanged chain has ended,
\* the first having counted an exercise transaction.
C10_Witness ==
    /\ script = "update_usd"
    /\ run = 2
    /\ ppc = "done"
    /\ ~prevFailed
    /\ Len(chain) = prevChainLen
    /\ datafile.exists
    /\ datafile.total_txs >= 1

\* ------------------------------------------------ claims: update_exercised_usd

AllExercise == SelectSeq([i \in 1..Len(chain) |-> i], IsExercise)

\* What one run over the whole history, from an absent data file and with
\* every receipt answered, writes as total_usdc and total_txs.
ColdTotals ==
    [total_usdc |-> Round2(SumAmounts(AllExercise, {}).usdc),
     total_txs |-> SumAmounts(AllExercise, {}).n]

\* C11: the totals update_exercised_usd has stored depend only on the on-chain
\* history: after any sequence of runs, the last of which met no failed answer,
\* total_usdc and total_txs are those a single cold run over the whole history
\* writes.
C11_TotalsAreColdRunTotals ==
    (script = "update_usd" /\ ppc = "done" /\ run >= 2 /\ ~apiFailed /\ datafile.exists)
        => /\ datafile.total_usdc = ColdTotals.total_usdc
           /\ datafile.total_txs = ColdTotals.total_txs

\* ------------------------------------------------ claims: worker pools

\* The steps of the main thread that assign to the cache dict or write the
\* cache file.
MainWrites ==
    \/ EeStart
    \/ EeCollect
    \/ EeOpenCacheFile
    \/ EeDumpCache
    \/ LdStart
    \/ LdCollect
    \/ LdReplace

\* C12: the cache dict and the cache file are changed only by steps of the
\* main thread: a step of a worker task (fetch_one, make_batch_call) leaves
\* both as they are, so no two writes are ever concurrent.
C12_SingleWriter ==
    /\ [][(EeWorker \/ LdWorker) => (cache' = cache /\ cachefile' = cachefile)]_vars
    /\ [][(cache' # cache \/ cachefile' # cachefile) => MainWrites]_vars

\* The main thread has merged the result of one worker while another worker
\* of the same chunk is still running.
C12_Witness ==
    /\ script = "early_exits"
    /\ cache # batchStart
    /\ \E i \in inflight : futures[i] = "running"

\* The futures of the chunk merged one after the other in the order of their
\* positions in tx_hashes_needed.
RECURSIVE EeMergeInOrder(_, _)
EeMergeInOrder(c, ps) ==
    IF ps = <<>> THEN c
    ELSE EeMergeInOrder(Merge(c, needed[Head(ps)], futures[Head(ps)]), Tail(ps))

\* The futures of the window merged in the order of their chunks.
RECURSIVE LdMergeInOrder(_, _)
LdMergeInOrder(c, cs) ==
    IF cs = <<>> THEN c
    ELSE LdMergeInOrder(LdMerge(c, Head(cs), futures[Head(cs)].errs), Tail(cs))

\* C13: when every future of a batch has been merged, the cache holds the same
\* entries (key and value) as a merge of the same results in submission order,
\* whatever the order in which the workers completed; also when a hash is
\* twice in the batch and when calls failed.
C13_MergeCommutes ==
    /\ (script = "early_exits" /\ inflight = {} /\ DOMAIN futures # {})
           => Range(cache) = Range(EeMergeInOrder(batchStart, Ascending(DOMAIN futures)))
    /\ (script = "locked_dolo" /\ inflight = {} /\ DOMAIN futures # {})
           => Range(cache) = Range(LdMergeInOrder(batchStart, Ascending(DOMAIN futures)))

\* A batch that held one hash twice is merged; the first of the two calls
\* failed and the second delivered the receipt.
C13_Witness ==
    /\ script = "early_exits"
    /\ inflight = {}
    /\ cache # batchStart
    /\ \E i \in DOMAIN futures : \E j \in DOMAIN futures :
          /\ i < j
          /\ needed[i] = needed[j]
          /\ futures[i] = "none"
          /\ futures[j] = "ok"

\* The resolver calls in flight: submitted and not yet returned.
Running ==
    IF script = "early_exits" THEN {i \in inflight : futures[i] = "running"}
    ELSE IF script = "locked_dolo" THEN {c \in inflight : futures[c].state = "running"}
    ELSE {}

\* C14: at every moment at most PoolSize (MAX_WORKERS) resolver calls are in
\* flight, and when the main thread is about to submit a batch every call of
\* the previous batch has returned and its result has been merged.
C14_BoundedPool ==
    /\ Cardinality(Running) <= PoolSize
    /\ Cardinality(inflight) <= PoolSize
    /\ (cpc = "submit" => inflight = {})
    /\ (cpc \notin {"collect", "crashed"} => Running = {})

\* The second batch is about to be submitted, the first one merged.
C14_Witness ==
    /\ cpc = "submit"
    /\ chunk_idx >= 1
    /\ cache # <<>>
    /\ DOMAIN futures # {}

\* ------------------------------------------------ claims: per-item failures

\* The events (by index) whose hash was not in the loaded cache: the k-th of
\* them is the event that tx_hashes_needed[k] was listed for.
NeededEvents ==
    SelectSeq([i \in 1..Len(events) |-> i], LAMBDA i : events[i] \notin preloaded)

\* The events whose receipt lookup returned no result in this run.
FailedEvents == {NeededEvents[i] : i \in failed}

\* The tx_hash of every event but the failed ones, in log order.
EventsNotFailed ==
    LET kept == SelectSeq([i \in 1..Len(events) |-> i], LAMBDA i : i \notin FailedEvents)
    IN  [k \in 1..Len(kept) |-> events[kept[k]]]

\* The exercise transactions the fetch returned, and those among them whose
\* receipt gave no amount (no result, or no matching Transfer).
ExerciseTxs == SelectSeq(new_txs, IsExercise)
NoneTxs == {i \in Range(ExerciseTxs) : i \in unanswered \/ chain[i].amt = NoAmount}

RECURSIVE SumOver(_)
SumOver(S) ==
    IF S = {} THEN 0
    ELSE LET i == CHOOSE x \in S : TRUE IN chain[i].amt + SumOver(S \ {i})

\* C15: whatever receipt lookups return no result, a run that is not
\* interrupted writes its output, the error counter is the number of items
\* whose lookup gave no result, and those items add nothing to the totals:
\* the totals are those of the other items alone.
C15_FailuresCountedAndExcluded ==
    /\ (script = "early_exits" /\ cpc = "done" /\ events # <<>>)
          => /\ stats.written
             /\ errors = Cardinality(failed)
             /\ Fold(events, cache) = Fold(EventsNotFailed, cache)
    /\ (script = "calc_usd" /\ ppc = "done")
          => /\ result.written
             /\ result.errors = Cardinality(NoneTxs)
             /\ result.processed = Cardinality(Range(ExerciseTxs) \ NoneTxs)
             /\ result.total_usdc = SumOver(Range(ExerciseTxs) \ NoneTxs)

\* The receipt of h was found and holds no DOLO Transfer out of the veDOLO
\* contract.
NoMatchingTransfer(h) ==
    receipts[h].found /\ receipts[h].burn + receipts[h].recoup + receipts[h].user = 0

\* The events whose receipt holds a Transfer to the user and no fee.
NormalExitEvents ==
    {i \in DOMAIN events : /\ receipts[events[i]].found
                           /\ receipts[events[i]].user > 0
                           /\ receipts[events[i]].burn + receipts[events[i]].recoup = 0}

\* C16: a transaction whose receipt holds no matching Transfer event is left
\* unresolved: fetch_early_exits, started without a cache file, never has a
\* cache entry for it and does not count it among the normal exits;
\* calculate_exercised_usd does not count it as processed.
C16_UnresolvedIsNotZero ==
    /\ (script = "early_exits" /\ crun = 1 /\ prevCacheFile.state = "absent")
          => /\ \A h \in Range(events) : NoMatchingTransfer(h) => ~Has(cache, h)
             /\ stats.written => stats.total_normal_exits <= Cardinality(NormalExitEvents)
    /\ (script = "calc_usd" /\ ppc = "done")
          => result.processed <= Cardinality({i \in Range(ExerciseTxs) : chain[i].amt # NoAmount})

\* ------------------------------------------------ claims: per-address totals

\* The non-null items of address a in the finished generate_exercisers run.
ItemsOf(a) ==
    { i \in Range(ExerciseTxs) :
        chain[i].frm = a /\ i \notin unanswered /\ chain[i].amt # NoAmount }

NullItems ==
    { i \in Range(ExerciseTxs) : i \in unanswered \/ chain[i].amt = NoAmount }

ExScenario ==
    /\ script = "exercisers"
    /\ ppc = "done"
    /\ result.written
    /\ unanswered = {}
    /\ Len(chain) = 3
    /\ Range(ExerciseTxs) = 1..3
    /\ <<chain[1].amt, chain[2].amt, chain[3].amt>> = <<10000, 20500, NoAmount>>
    /\ <<chain[1].frm, chain[2].frm, chain[3].frm>> = <<"A", "A", "B">>

ExFinished == script = "exercisers" /\ ppc = "done" /\ result.written

\* C17 as stated: for amounts [10.0, 20.5, null] from [A, A, B] the aggregate
\* reports A with total 30.5 and count 2 and B with total 0 and count 0, the
\* null item counted once as an error; in general every address that sent an
\* exercise is reported with the sum and the number of its non-null items.
C17_PerAddressAsStated ==
    /\ ExScenario =>
          /\ DOMAIN result.exercisers = {"A", "B"}
          /\ result.exercisers["A"] = [total_usdc |-> 30500, exercises |-> 2]
          /\ result.exercisers["B"] = [total_usdc |-> 0, exercises |-> 0]
          /\ result.errors = 1
    /\ ExFinished =>
          \A a \in { chain[i].frm : i \in Range(ExerciseTxs) } :
              /\ a \in DOMAIN result.exercisers
              /\ result.exercisers[a].total_usdc = Round2(SumOver(ItemsOf(a)))
              /\ result.exercisers[a].exercises = Cardinality(ItemsOf(a))

\* What the run does report: an address is listed exactly when it has a
\* non-null item, with the sum and the number of those items; an address whose
\* items are all null is not in the output (B in the scenario), and every null
\* item is one error.
ListedAddresses ==
    /\ ExScenario =>
          /\ DOMAIN result.exercisers = {"A"}
          /\ result.exercisers["A"] = [total_usdc |-> 30500, exercises |-> 2]
          /\ result.total_addresses = 1
          /\ result.errors = 1
    /\ ExFinished =>
          /\ DOMAIN result.exercisers = { a \in Addresses : ItemsOf(a) # {} }
          /\ \A a \in DOMAIN result.exercisers :
                /\ result.exercisers[a].total_usdc = Round2(SumOver(ItemsOf(a)))
                /\ result.exercisers[a].exercises = Cardinality(ItemsOf(a))
          /\ result.errors = Cardinality(NullItems)

\* -------------------------------------------------- claims: lock buckets

\* The boundary table, in days: bucket b holds lo <= days < hi.
BucketRange(b) ==
    CASE b = "< 1 month"   -> [lo |-> 0,   hi |-> 30]
      [] b = "1-3 months"  -> [lo |-> 30,  hi |-> 90]
      [] b = "3-6 months"  -> [lo |-> 90,  hi |-> 180]
      [] b = "6-12 months" -> [lo |-> 180, hi |-> 365]
      [] b = "1-2 years"   -> [lo |-> 365, hi |-> 3 * 365 + 1]

InBucketRange(b, d) ==
    /\ BucketRange(b).lo * SecondsPerDay <= d
    /\ d < BucketRange(b).hi * SecondsPerDay

RECURSIVE SumBuckets(_, _)
SumBuckets(b, S) ==
    IF S = {} THEN 0
    ELSE LET x == CHOOSE y \in S : TRUE IN b[x] + SumBuckets(b, S \ {x})

ValidTxs == { i \in 1..Len(lock_txs) : extract_lock_duration(lock_txs[i]) # NoDuration }

\* C18: every pass of the bucket loop adds one to exactly one bucket, the one
\* whose half-open range [lo, hi) of the table 30/90/180/365 days holds the
\* duration (a boundary value is in the upper bucket), and the counts written
\* add up to the number of valid durations.
C18_BucketPartition ==
    /\ [][AvgBucket =>
            \E b \in BucketNames :
                /\ InBucketRange(b, durations[bi + 1])
                /\ buckets'[b] = buckets[b] + 1
                /\ \A o \in BucketNames \ {b} :
                      buckets'[o] = buckets[o] /\ ~InBucketRange(o, durations[bi + 1])]_vars
    /\ [](lpc = "bucketing" => SumBuckets(buckets, BucketNames) = bi)
    /\ [](lpc = "done" =>
            /\ avgfile.valid_durations = Cardinality(ValidTxs)
            /\ SumBuckets(avgfile.distribution, BucketNames) = avgfile.valid_durations)

\* A finished run that saw a rejected duration, 30 days less a second counted
\* in '< 1 month', and 30 days counted in '1-3 months'.
C18_Witness ==
    /\ lpc = "done"
    /\ \E i \in 1..Len(lock_txs) : lock_txs[i] = 30 * SecondsPerDay
    /\ \E i \in 1..Len(lock_txs) : lock_txs[i] = 30 * SecondsPerDay - 1
    /\ \E i \in 1..Len(lock_txs) : extract_lock_duration(lock_txs[i]) = NoDuration
    /\ avgfile.distribution["1-3 months"] = 1
    /\ avgfile.distribution["< 1 month"] = 1
    /\ avgfile.valid_durations < avgfile.total_exercises

LockScenario ==
    /\ script = "avg_lock"
    /\ lpc = "done"
    /\ lock_txs = <<5 * SecondsPerDay, 45 * SecondsPerDay,
                    200 * SecondsPerDay, 400 * SecondsPerDay>>

\* C19 as stated: durations of 5, 45, 200 and 400 days give '<1 month' = 1,
\* '1-3 months' = 0, '3-6 months' = 1, '6-12 months' = 0, '1-2 years' = 1.
C19_ScenarioAsStated ==
    LockScenario =>
        avgfile.distribution =
            [b \in BucketNames |->
                CASE b = "< 1 month"   -> 1
                  [] b = "1-3 months"  -> 0
                  [] b = "3-6 months"  -> 1
                  [] b = "6-12 months" -> 0
                  [] b = "1-2 years"   -> 1]

\* C19 amended: under the table 30/90/180/365 days, 45 days is in
\* '1-3 months' and 200 days in '6-12 months': the durations 5, 45, 200 and
\* 400 days give '<1 month' = 1, '1-3 months' = 1, '3-6 months' = 0,
\* '6-12 months' = 1, '1-2 years' = 1.
C19_Scenario ==
    LockScenario =>
        avgfile.distribution =
            [b \in BucketNames |->
                CASE b = "< 1 month"   -> 1
                  [] b = "1-3 months"  -> 1
                  [] b = "3-6 months"  -> 0
                  [] b = "6-12 months" -> 1
                  [] b = "1-2 years"   -> 1]

C19_Witness == LockScenario /\ avgfile.written /\ avgfile.valid_durations = 4

\* ------------------------------------------------------ claims: termination

RunEnded ==
    \/ ppc = "done"
    \/ script = "avg_lock" /\ ppc = "fetched"

\* C20: every run of calculate_exercised_usd, generate_exercisers,
\* calculate_avg_lock and update_exercised_usd eventually terminates, whatever
\* its list and receipt calls do: a call that never answers is given up after
\* a fixed timeout and a bounded number of retries.
C20_EveryRunTerminates == (ppc \in {"load", "fetching"}) ~> RunEnded

\* ---------------------------------------------------- claims: exit behaviour

\* The requests update_data has issued: answered pages and failed attempts.
NoRequestIssued == delivered = {} /\ retry = 0 /\ all_txs = <<>> /\ start_block = 0

\* C21: without the credential update_data exits non-zero before any request;
\* a run that finds nothing exits with code 0; a run whose first page fails on
\* every attempt ends as a fatal abort with a non-zero exit, not as a
\* 'nothing found' exit.
C21_ExitBehaviour ==
    /\ (script = "nft" /\ fpc = "no_key") => NoRequestIssued
    /\ (script = "nft" /\ endedBy = "no_key") => (mainpc = "exit1" /\ NoRequestIssued)
    /\ (script = "nft" /\ endedBy = "no_tx" /\ all_txs = <<>>) => mainpc = "exit0"
    /\ (script = "nft" /\ fpc = "done" /\ endedBy = "retries" /\ delivered = {})
           => mainpc = "exit1"

\* ------------------------------------------------------ claims: cache loading

\* prevCacheFile is the cache file as the current run found it.
RunLoaded == cpc \notin {"idle", "load"}

\* C22: a run that finds no cache file starts from an empty cache and goes on;
\* a run that finds a cache file that is not a complete document fails at the
\* load, has written nothing to the file, and has not taken the cache to be
\* empty.
C22_CacheLoading ==
    /\ (RunLoaded /\ prevCacheFile.state = "absent" /\ cpc # "crashed")
           => (cpc # "failed_load" /\ preloaded = {})
    /\ (RunLoaded /\ prevCacheFile.state = "truncated")
           => (cpc = "failed_load" /\ cachefile = prevCacheFile /\ calls = {})
    /\ cpc = "failed_load" => prevCacheFile.state = "truncated"

\* The second run of fetch_early_exits found the file its interrupted first
\* run left and stopped at the load.
C22_Witness ==
    /\ script = "early_exits"
    /\ crun = 2
    /\ cpc = "failed_load"
    /\ cachefile.state = "truncated"

\* ------------------------------------------------------- claims: ownership

\* The transfer records of nft_txs in another arrival order.
Rearranged(f) == [i \in DOMAIN nft_txs |-> nft_txs[f[i]]]

\* The ownership dict as a mapping.
AsMap(own) == Range(own)

\* C23: whatever the order in which the same transfer records arrive, several
\* transfers of one token inside one transaction included, build_ownership
\* gives the same ownership map and the same statistics, the owner of a token
\* being the recipient of its last transfer in (block, index) order.
C23_ReplayIgnoresArrivalOrder ==
    opc \in {"built", "exit0"} /\ nft_txs # <<>> =>
        /\ \A i \in DOMAIN ownership :
              \E j \in DOMAIN nft_txs :
                  /\ nft_txs[j].tokenID = ownership[i].k
                  /\ nft_txs[j].to = ownership[i].v
                  /\ \A m \in DOMAIN nft_txs :
                        nft_txs[m].tokenID = ownership[i].k
                            => ~KeyLess(SortKey(nft_txs[j]), SortKey(nft_txs[m]))
        /\ \A f \in Permutations(DOMAIN nft_txs) :
              /\ AsMap(build_ownership(Rearranged(f)).ownership) = AsMap(ownership)
              /\ build_ownership(Rearranged(f)).stats = nft_stats

\* ------------------------------------------------- claims: final listings

\* C24: the list of holders and its ranks are a function of the balances
\* alone: the list is in descending order of balance, entries of equal
\* balance are in ascending order of address, and the rank is the position.
C24_DeterministicListing ==
    mpc = "merged" =>
        /\ { merged[i].address : i \in DOMAIN merged }
               = DOMAIN eth_balances \cup DOMAIN bera_balances
        /\ \A i \in DOMAIN merged : merged[i].rank = i
        /\ \A i, j \in DOMAIN merged :
              i < j =>
                  \/ merged[i].balance > merged[j].balance
                  \/ /\ merged[i].balance = merged[j].balance
                     /\ merged[i].address < merged[j].address

\* ------------------------------------------------------- claims: retries

\* C25: in a retry loop the number of attempts for one request is bounded by
\* a constant and the wait before each further attempt is at least double the
\* wait before it.
C25_ExponentialBackoff ==
    script \in BlockFetchers =>
        /\ retry < Retries(script)
        /\ Len(waits) <= Retries(script)
        /\ \A i \in 2..Len(waits) : waits[i] >= 2 * waits[i - 1]

\* ------------------------------------------------ claims: incremental resume

\* The successful exercise transactions with a USDC.e amount at or below the
\* stored cursor.
BehindCursor ==
    { i \in DOMAIN chain :
        chain[i].ex /\ chain[i].amt # NoAmount /\ chain[i].blk <= datafile.last_block }

BlocksOf(items) == { chain[items[k]].blk : k \in DOMAIN items }

MaxOf(S) == CHOOSE m \in S : \A x \in S : x <= m

\* C26: after any sequence of runs of update_exercised_usd every successful
\* exercise transaction at or below the stored last_block is in total_txs and
\* total_usdc (total_usdc is rounded to the cent at every save, so it may be
\* short by half a cent per run and no more).
C26_NothingLeftBehind ==
    (script = "update_usd" /\ datafile.exists) =>
        /\ datafile.total_txs >= Cardinality(BehindCursor)
        /\ datafile.total_usdc + 5 * run >= SumOver(BehindCursor)

\* C27: the stored last_block never decreases; a run fetches only transactions
\* above the last_block it loaded; a run that saves leaves last_block at the
\* highest block fetched in this run or before; and no more transactions are
\* counted than there are at or below the cursor.
C27_NothingCountedTwice ==
    /\ [][datafile'.last_block >= datafile.last_block]_vars
    /\ [](script = "update_usd" /\ ppc \in {"fetching", "fetched", "done"} =>
            /\ existing.last_block = prevFile.last_block
            /\ \A b \in BlocksOf(new_txs) : b > existing.last_block)
    /\ [][UsdProcess /\ new_txs # <<>> =>
            datafile'.last_block = MaxOf({existing.last_block} \cup BlocksOf(new_txs))]_vars
    /\ [](script = "update_usd" /\ datafile.exists =>
            /\ datafile.total_txs <= Cardinality(BehindCursor)
            /\ datafile.total_usdc <= SumOver(BehindCursor) + 5 * run)

\* A second run that found new transactions and saved.
C27_Witness ==
    /\ script = "update_usd"
    /\ run = 2
    /\ ppc = "done"
    /\ datafile.stamp = 2
    /\ prevFile.exists
    /\ prevFile.total_txs >= 1
    /\ datafile.total_txs > prevFile.total_txs

\* ------------------------------------------------ claims: Withdraw events

RangesPartition ==
    /\ \A i \in DOMAIN ranges :
          /\ ranges[i].from = (IF i = 1 THEN 0 ELSE ranges[i - 1].to + 1)
          /\ ranges[i].to = Min(ranges[i].from + step - 1, latest_block)
    /\ wpc = "returned" => (ranges # <<>> /\ ranges[Len(ranges)].to = latest_block)

\* C28: fetch_withdraw_events asks for consecutive ranges of `step` blocks that
\* cover [0, latest_block] without overlap or gap, comes to an end, and returns
\* every Withdraw event of those blocks exactly once, in ascending order, also
\* when the eth_getLogs call of some range fails.
C28_AllWithdrawEvents ==
    /\ [](script = "early_exits" /\ wpc # "idle" => RangesPartition)
    /\ [](wpc = "returned" => all_logs = GetLogs(0, latest_block))
    /\ (wpc = "latest") ~> (wpc \in {"returned", "raised"})

\* ------------------------------------------------------- claims: rpc_call

TimesTried(u) == Cardinality({ i \in DOMAIN tried : tried[i] = u })

\* The endpoints are asked in list order, each at most `retries` times, the
\* next one only after `retries` requests to the one before; at most
\* len(RPC_URLS) * retries requests are made; and a response that carries a
\* result ends the call with that result.
RpcFallbackOrder ==
    /\ \A i \in DOMAIN tried : tried[i] \in 0..(NUM_RPC_URLS - 1)
    /\ \A i, j \in DOMAIN tried : i < j => tried[i] <= tried[j]
    /\ \A u \in 0..(NUM_RPC_URLS - 1) : TimesTried(u) <= RPC_RETRIES
    /\ \A u \in 1..(NUM_RPC_URLS - 1) :
          TimesTried(u) > 0 => TimesTried(u - 1) = RPC_RETRIES
    /\ Len(tried) <= NUM_RPC_URLS * RPC_RETRIES
    /\ rpc_pc = "post" => answered = "nothing"
    /\ (rpc_pc = "returned" /\ answered # "nothing") => rpc_ret = ValueOf(answered)

\* C29 as stated: ... and rpc_call returns None only after every attempt on
\* every endpoint has failed.
C29_NoneOnlyAfterAllFailed ==
    script = "early_exits" /\ rpc_pc # "idle" =>
        /\ RpcFallbackOrder
        /\ (rpc_pc = "returned" /\ rpc_ret = None) =>
              (answered = "nothing" /\ Len(tried) = NUM_RPC_URLS * RPC_RETRIES)

\* ------------------------------------------- claims: extract_lock_duration

\* lock_end - timeStamp, with lock_end the value the sender put into the
\* third parameter word
SentDifference == abi - dtx.timeStamp

StatedNone ==
    \/ Len(dtx.input) < MIN_INPUT_LEN
    \/ SentDifference \notin 1..MAX_LOCK_SECONDS

\* C30 as stated: each of the two functions named extract_lock_duration
\* returns None exactly when the input is shorter than 266 characters or the
\* difference lock_end - timeStamp is outside 1 .. 3*365*86400, and otherwise
\* returns that difference; every duration it hands on is positive and at
\* most three years.  (dur_days counts tenths of a day: it is the difference
\* in seconds when it equals 10 times the difference.)
C30_BothReturnTheDifference ==
    /\ "avg_lock" \in decoded =>
          /\ dur_seconds = (IF StatedNone THEN NoDuration ELSE SentDifference)
          /\ dur_seconds # NoDuration => dur_seconds \in 1..MAX_LOCK_SECONDS
    /\ "exercisers" \in decoded =>
          /\ dur_days = (IF StatedNone THEN NoDuration ELSE 10 * SentDifference)
          /\ dur_days # NoDuration => dur_days > 0

\* C30 amended: both functions return None exactly when the input is shorter
\* than 266 characters or the difference lock_end - timeStamp is outside
\* 1 .. 3*365*86400 seconds, lock_end being the third 32-byte parameter word
\* of the input.  Otherwise calculate_avg_lock's function returns that
\* difference in seconds, so every duration that reaches the distribution is
\* positive and at most three years; generate_exercisers' function returns
\* the difference in days rounded to one decimal, between 0.0 and 1095.0 and
\* 0.0 for a difference under 4320 seconds.  Neither result depends on
\* anything but the input and timeStamp fields.
C30_LockDuration ==
    /\ "avg_lock" \in decoded =>
          /\ dur_seconds = (IF StatedNone THEN NoDuration ELSE SentDifference)
          /\ dur_seconds # NoDuration => dur_seconds \in 1..MAX_LOCK_SECONDS
    /\ "exercisers" \in decoded =>
          /\ dur_days = NoDuration <=> StatedNone
          /\ dur_days # NoDuration =>
                /\ dur_days \in 0..(10 * 3 * 365)
                /\ 10 * SentDifference - dur_days * SecondsPerDay < SecondsPerDay \div 2
                /\ dur_days * SecondsPerDay - 10 * SentDifference < SecondsPerDay \div 2
                /\ SentDifference < 4320 => dur_days = 0
    /\ ~("avg_lock" \in decoded) => dur_seconds = NoDuration
    /\ ~("exercisers" \in decoded) => dur_days = NoDuration

\* A lock of exactly three years in an input of exactly 266 characters went
\* through both functions.
C30_Witness ==
    /\ decoded = {"avg_lock", "exercisers"}
    /\ Len(dtx.input) = MIN_INPUT_LEN
    /\ SentDifference = MAX_LOCK_SECONDS
    /\ dur_seconds = MAX_LOCK_SECONDS
    /\ dur_days = 10 * 3 * 365

\* ------------------------------------------------- claims: fetch_defillama

\* C31: when the fetch or its processing fails at any step, an output file
\* that existed before the run has exactly its previous content afterwards,
\* and only when no output file existed is a placeholder written.
C31_KeepsExistingOnFailure ==
    (script = "defillama" /\ dl_pc = "failed") =>
        /\ dl_prev.exists => dl_file = dl_prev
        /\ (dl_file.content = "placeholder" /\ dl_file # dl_prev) => ~dl_prev.exists

\* ------------------------------------------------------------ claims: dedup

\* C32: the dedup loop of the block-range fetchers drops a record only if the
\* very same transfer was collected before: every record of the source that
\* a page has delivered is in all_txs, two transfers of one token ID inside
\* one transaction included.
C32_DistinctRecordsKept ==
    script \in BlockFetchers => \A r \in delivered : r \in Range(all_txs)

\* C33: whenever a block-range fetcher returns, the returned list has no
\* hole: it never contains a transfer of some block while a transfer of an
\* earlier block that the source holds is missing from it.  (Stated for the
\* runs in which no record is missing for another reason: all composite keys
\* of the source differ, and the forced advance out of a block that fills a
\* whole page did not run.)
C33_ResultIsPrefix ==
    (script \in BlockFetchers /\ fpc = "done" /\ KeysUnique /\ ~stalled) =>
        \A i \in Range(all_txs) : \A j \in DOMAIN src :
            src[j].blk < src[i].blk => j \in Range(all_txs)

\* -------------------------------------------------- claims: failed lookups

\* The cache the next run loads from the file on disk.
NextRunCache == IF cachefile.state = "valid" THEN cachefile.data ELSE <<>>

\* C34: an item whose resolver call failed in a run (every receipt lookup of
\* a transaction gave no result; the batch of a token ID failed) has no
\* resolved entry in the cache file when the run has ended, so the next run
\* lists it among the items to resolve.
C34_FailedLookupRetried ==
    /\ (script = "early_exits" /\ cpc = "done") =>
          \A p \in failed :
              {q \in DOMAIN needed : needed[q] = needed[p]} \subseteq failed
                  => needed[p] \in Range(NeededOf(events, NextRunCache))
    /\ (script = "locked_dolo" /\ cpc = "done") =>
          \A p \in failed : needed[p] \in Range(MissingOf(events, NextRunCache))

\* ------------------------------------------------ claims: penalty totals

\* The burn and recoup Transfers of the transactions in S, each taken once.
RECURSIVE FeesOf(_)
FeesOf(S) ==
    IF S = {} THEN [burn |-> 0, recoup |-> 0]
    ELSE LET h == CHOOSE x \in S : TRUE
             rest == FeesOf(S \ {h})
         IN  [burn |-> rest.burn + receipts[h].burn,
              recoup |-> rest.recoup + receipts[h].recoup]

\* C35: every burn and recoup Transfer of a transaction contributes to
\* total_burn_fee_dolo, total_recoup_fee_dolo and total_penalty_dolo at most
\* once, also when several Withdraw events share one transaction hash.
C35_PenaltiesCountedOnce ==
    (script = "early_exits" /\ stats.written) =>
        LET fees == FeesOf({h \in Range(events) : receipts[h].found})
        IN  /\ stats.total_burn_fee_dolo <= Round2(fees.burn)
            /\ stats.total_recoup_fee_dolo <= Round2(fees.recoup)
            /\ stats.total_penalty_dolo <= Round2(fees.burn + fees.recoup)

\* ------------------------------------------- claims: ownership statistics

RECURSIVE SumCounts(_)
SumCounts(hs) == IF hs = <<>> THEN 0 ELSE Head(hs).nft_count + SumCounts(Tail(hs))

\* C36: after build_ownership, for every transfer sequence, each token ID
\* with a non-zero current owner is in the token_ids of exactly one holder,
\* unique_holders is the number of holders, and active_nfts
\* (total_minted - total_burned) is the sum of nft_count over all holders.
C36_OwnershipStatsConsistent ==
    (script = "nft" /\ opc \in {"built", "exit0"} /\ nft_txs # <<>>) =>
        /\ \A i \in DOMAIN ownership :
              ownership[i].v # ZERO =>
                 Cardinality({ j \in DOMAIN holders :
                                 ownership[i].k \in Range(holders[j].token_ids) }) = 1
        /\ nft_stats.unique_holders = Len(holders)
        /\ nft_stats.active_nfts = nft_stats.total_minted - nft_stats.total_burned
        /\ nft_stats.active_nfts = SumCounts(holders)

\* ------------------------------------------- claims: early-exit statistics

\* The events whose transaction has no cache entry.
P4Unresolved == { i \in DOMAIN p4_events : ~Has(p4_cache, p4_events[i].tx_hash) }

TimesListed(l, ev) == Cardinality({ j \in DOMAIN l : l[j].token_id = ev.token_id })

\* C37: in the output of fetch_early_exits.main total_early_exits +
\* total_normal_exits <= total_withdrawals, the difference is the number of
\* events whose transaction has no cache entry, every event with an entry is
\* classified as exactly one of early or normal exit, and early_exits is
\* listed in non-increasing timestamp order.
C37_ExitStatsConsistent ==
    (script = "early_exits" /\ p4_pc = "done") =>
        /\ p4_stats.total_early_exits + p4_stats.total_normal_exits
              <= p4_stats.total_withdrawals
        /\ p4_stats.total_withdrawals
              - (p4_stats.total_early_exits + p4_stats.total_normal_exits)
              = Cardinality(P4Unresolved)
        /\ p4_stats.total_early_exits = Len(early_exits)
        /\ p4_stats.total_normal_exits = Len(normal_exits)
        /\ \A i \in DOMAIN p4_events :
              TimesListed(early_exits, p4_events[i]) + TimesListed(normal_exits, p4_events[i])
                  = IF i \in P4Unresolved THEN 0 ELSE 1
        /\ \A j \in DOMAIN early_exits : early_exits[j].is_early_exit
        /\ \A j \in DOMAIN normal_exits : ~normal_exits[j].is_early_exit
        /\ \A j, k \in DOMAIN early_exits :
              j < k => early_exits[j].timestamp >= early_exits[k].timestamp

\* Two early exits that arrived in ascending timestamp order, one normal exit
\* or unresolved event beside them, and the output is written.
C37_Witness ==
    /\ p4_pc = "done"
    /\ Len(early_exits) = 2
    /\ p4_events[1].timestamp < p4_events[2].timestamp
    /\ Has(p4_cache, p4_events[1].tx_hash)
    /\ Get(p4_cache, p4_events[1].tx_hash).is_early_exit
    /\ Get(p4_cache, p4_events[2].tx_hash).is_early_exit
    /\ P4Unresolved # {}

\* ------------------------------------------------- claims: batch lookups

\* C38: for every list of token IDs and every pattern of endpoint failures,
\* a response that fails while it is being parsed included, the map returned
\* by make_batch_call and by make_vote_batch_call has an entry for every
\* requested token ID.
C38_BatchLookupsTotal ==
    (b_fn \in BatchFunctions /\ b_pc = "returned") => Keys(b_out) = Range(b_ids)

====
